---- MODULE Spec2Model ----
(***************************************************************************)
(* Model of the in-process cache of the tennis prediction backend          *)
(* (class CacheManager, src/backend/tennis/predict_match.ts:446-638).      *)
(*                                                                         *)
(* Strings are TLA+ strings; TLC evaluates Len, SubSeq and \o on them, so  *)
(* keys are built and searched character by character as the code does.   *)
(* Every operation reads the clock once: a call runs at one instant.       *)
(***************************************************************************)
EXTENDS Integers, Sequences, FiniteSets, TLC

VARIABLES memoryCache, now, ret, db, tasks

vars == <<memoryCache, now, ret, db, tasks>>

(***************************************************************************)
(* Bounds of the model.                                                    *)
(***************************************************************************)
\* The source sets maxMemoryCacheSize = 1000 (predict_match.ts:449); the
\* model keeps the comparison and scales the number so that the store fills.
maxMemoryCacheSize == 2

\* The clock advances in whole seconds, at most MaxTicks times.
MaxTicks == 2

\* TTLs (seconds) passed to set: 0, which runs out with the first tick, and
\* MaxTTL.
MaxTTL == 2

\* Parameter mappings handed to generateKey hold at most MaxParams names.
MaxParams == 3

(***************************************************************************)
(* Program constants.                                                      *)
(***************************************************************************)
\* isExpired multiplies the ttl (seconds) by 1000 to compare milliseconds.
MsPerSec == 1000

\* The value get returns on a miss.
NULL == "null"

(***************************************************************************)
(* Characters and strings                                                  *)
(***************************************************************************)
\* The characters that occur in keys, in increasing UTF-16 code unit order.
Chars == "0123456789:ABCDEFGHIJKLMNOPQRSTUVWXYZ_abcdefghijklmnopqrstuvwxyz|"

UpperChars == "ABCDEFGHIJKLMNOPQRSTUVWXYZ"

LowerChars == "abcdefghijklmnopqrstuvwxyz"

CharAt(s, i) == SubSeq(s, i, i)

\* The rank of each character in that order.
CharCodes ==
  [c \in {CharAt(Chars, i) : i \in 1..Len(Chars)} |->
     CHOOSE i \in 1..Len(Chars) : CharAt(Chars, i) = c]

CharCode(c) == CharCodes[c]

\* The lower-case letter of each upper-case letter.
LowerOf ==
  [c \in {CharAt(UpperChars, i) : i \in 1..Len(UpperChars)} |->
     CharAt(LowerChars, CHOOSE i \in 1..Len(UpperChars) : CharAt(UpperChars, i) = c)]

\* String.prototype.toLowerCase on one character.
LowerChar(c) == IF c \in DOMAIN LowerOf THEN LowerOf[c] ELSE c

\* Array.prototype.join
RECURSIVE Join(_, _)
Join(parts, sep) ==
  IF Len(parts) = 0 THEN ""
  ELSE IF Len(parts) = 1 THEN parts[1]
  ELSE parts[1] \o sep \o Join(Tail(parts), sep)

\* toLowerCase left out: the string as it is.
toLowerCaseSkipped(s) == s

\* String.prototype.toLowerCase
toLowerCase(s) == Join([i \in 1..Len(s) |-> LowerChar(CharAt(s, i))], "")

\* The first position from i on where a and b differ, or 0 when the shorter
\* one ends first.
RECURSIVE FirstDiff(_, _, _)
FirstDiff(a, b, i) ==
  IF i > Len(a) \/ i > Len(b) THEN 0
  ELSE IF CharAt(a, i) # CharAt(b, i) THEN i
  ELSE FirstDiff(a, b, i + 1)

\* a < b in the order Array.prototype.sort() uses without a comparator:
\* code unit by code unit, a proper prefix first.
StrLess(a, b) ==
  LET d == FirstDiff(a, b, 1) IN
  IF d = 0 THEN Len(a) < Len(b)
  ELSE CharCode(CharAt(a, d)) < CharCode(CharAt(b, d))

\* includes written as startsWith: the pattern must begin the key.
includesAtStart(key, pattern) ==
  Len(pattern) <= Len(key) /\ SubSeq(key, 1, Len(pattern)) = pattern

\* String.prototype.includes: pattern occurs in key as a literal substring.
includes(key, pattern) ==
  \E i \in 1..(Len(key) - Len(pattern) + 1) :
     SubSeq(key, i, i + Len(pattern) - 1) = pattern

(***************************************************************************)
(* Parameter mappings: a Record<string, any> is the sequence of its        *)
(* <<name, value>> properties in insertion order, names distinct.  A value *)
(* is a number [num |-> n], a string [str |-> s], a boolean [bool |-> b],  *)
(* an array of numbers [arr |-> <<...>>], a plain object [obj |-> TRUE] or *)
(* a symbol [sym |-> TRUE].                                                *)
(***************************************************************************)
Num(n) == [num |-> n]

Str(s) == [str |-> s]

Bool(b) == [bool |-> b]

Arr(a) == [arr |-> a]

Obj == [obj |-> TRUE]

Sym == [sym |-> TRUE]

\* The values the template literal converts without a TypeError, booleans
\* taken out.
ThrowsOnBoolean(v) == "sym" \in DOMAIN v \/ "bool" \in DOMAIN v

\* Template literal `${value}` raises a TypeError: only for a symbol.
Throws(v) == "sym" \in DOMAIN v

\* Template literal `${value}` for the other values: a number in decimal,
\* a string as it is, true/false, the elements of an array joined by
\* commas, and [object Object] for a plain object.
Stringify(v) ==
  CASE "num" \in DOMAIN v -> ToString(v.num)
    [] "str" \in DOMAIN v -> v.str
    [] "bool" \in DOMAIN v -> IF v.bool THEN "true" ELSE "false"
    [] "arr" \in DOMAIN v ->
         Join([i \in 1..Len(v.arr) |-> ToString(v.arr[i])], ",")
    [] "obj" \in DOMAIN v -> "[object Object]"

\* Object.keys(params): property names in insertion order.
ObjectKeys(params) == [i \in 1..Len(params) |-> params[i][1]]

\* params[key]
Lookup(params, key) ==
  params[CHOOSE i \in 1..Len(params) : params[i][1] = key][2]

\* The strings of names placed by rank: rank[i] is the number of strings
\* that sort before names[i].
PlaceByRank(names, rank) ==
  [r \in 1..Len(names) |-> names[CHOOSE i \in 1..Len(names) : rank[i] = r - 1]]

\* generateKey without the sort: names stay in insertion order.
SortStringsSkipped(names) == names

\* Array.prototype.sort() on distinct strings.
SortStrings(names) ==
  PlaceByRank(names,
    [i \in 1..Len(names) |->
       Cardinality({j \in 1..Len(names) \ {i} : StrLess(names[j], names[i])})])

\* generateKey raises: the conversion of one of the values does.
KeyThrows(params) == \E i \in 1..Len(params) : Throws(params[i][2])

generateKey(prefix, params) ==
  LET sorted == SortStrings(ObjectKeys(params))
      sortedParams ==
        Join([i \in 1..Len(sorted) |->
                sorted[i] \o ":" \o Stringify(Lookup(params, sorted[i]))], "|")
  IN  prefix \o ":" \o sortedParams

(***************************************************************************)
(* The store: a Map keeps its entries in insertion order; an entry is      *)
(* [key, data, timestamp, ttl].                                            *)
(***************************************************************************)
HasKey(m, key) == \E i \in 1..Len(m) : m[i].key = key

\* Map.prototype.get; only used when HasKey.
MapGet(m, key) == m[CHOOSE i \in 1..Len(m) : m[i].key = key]

\* Map.set that leaves an existing entry as it is.
MapSetIfAbsent(m, key, e) ==
  IF HasKey(m, key) THEN m ELSE Append(m, e)

\* Map.set that keeps the timestamp of the entry it replaces.
MapSetKeepTimestamp(m, key, e) ==
  IF HasKey(m, key)
  THEN [i \in 1..Len(m) |->
          IF m[i].key = key THEN [e EXCEPT !.timestamp = m[i].timestamp]
          ELSE m[i]]
  ELSE Append(m, e)

\* Map.prototype.set: an existing key keeps its position.
MapSet(m, key, e) ==
  IF HasKey(m, key)
  THEN [i \in 1..Len(m) |-> IF m[i].key = key THEN e ELSE m[i]]
  ELSE Append(m, e)

\* Map.prototype.clear in the place of delete.
MapClear(m, key) == << >>

\* Map.prototype.delete
MapDelete(m, key) == SelectSeq(m, LAMBDA e : e.key # key)

\* isExpired with >= for >: an entry expires the instant its TTL is reached.
isExpiredAtTTL(entry, t) == t - entry.timestamp >= entry.ttl * MsPerSec

isExpired(entry, t) == t - entry.timestamp > entry.ttl * MsPerSec

\* The comparator reversed (b - a): newest first.
SortByTimestampDesc(m) ==
  LET n == Len(m)
      Rank(i) == Cardinality({j \in 1..n :
                    \/ m[j].timestamp > m[i].timestamp
                    \/ m[j].timestamp = m[i].timestamp /\ j < i})
  IN  [r \in 1..n |-> m[CHOOSE i \in 1..n : Rank(i) = r - 1]]

\* The sort left out: entries stay in insertion order.
SortByInsertion(m) == m

\* entries sorted by (a, b) => a[1].timestamp - b[1].timestamp; the sort is
\* stable, so equal timestamps stay in insertion order.
\* The sort with entries of equal timestamp in reverse insertion order.
SortByTimestampTiesReversed(m) ==
  LET n == Len(m)
      Rank(i) == Cardinality({j \in 1..n :
                    \/ m[j].timestamp < m[i].timestamp
                    \/ m[j].timestamp = m[i].timestamp /\ j > i})
  IN  [r \in 1..n |-> m[CHOOSE i \in 1..n : Rank(i) = r - 1]]

SortByTimestamp(m) ==
  LET n == Len(m)
      Rank(i) == Cardinality({j \in 1..n :
                    \/ m[j].timestamp < m[i].timestamp
                    \/ m[j].timestamp = m[i].timestamp /\ j < i})
  IN  [r \in 1..n |-> m[CHOOSE i \in 1..n : Rank(i) = r - 1]]

\* The store after the first loop of cleanupMemoryCache at time t.
RemoveExpired(m, t) == SelectSeq(m, LAMBDA e : ~isExpired(e, t))

\* The store after the second phase: the first size - max entries of the
\* sorted array are deleted by key.
\* The second phase with a slice that is one entry too long.
RemoveOldestOneMore(m) ==
  IF Len(m) > maxMemoryCacheSize
  THEN LET entries  == SortByTimestamp(m)
           toRemove == SubSeq(entries, 1, Len(m) - maxMemoryCacheSize + 1)
       IN  SelectSeq(m, LAMBDA e :
                          \A i \in 1..Len(toRemove) : toRemove[i].key # e.key)
  ELSE m

RemoveOldest(m) ==
  IF Len(m) > maxMemoryCacheSize
  THEN LET entries  == SortByTimestamp(m)
           toRemove == SubSeq(entries, 1, Len(m) - maxMemoryCacheSize)
       IN  SelectSeq(m, LAMBDA e :
                          \A i \in 1..Len(toRemove) : toRemove[i].key # e.key)
  ELSE m

\* cleanupMemoryCache without its second phase.
cleanupExpiredOnly(m, t) ==
  IF Len(m) <= maxMemoryCacheSize THEN m
  ELSE RemoveExpired(m, t)

\* cleanupMemoryCache without its early return.
cleanupAlways(m, t) == RemoveOldest(RemoveExpired(m, t))

cleanupMemoryCache(m, t) ==
  IF Len(m) <= maxMemoryCacheSize THEN m
  ELSE RemoveOldest(RemoveExpired(m, t))

\* What get(key) returns from store m at time t.
GetResult(m, key, t) ==
  IF HasKey(m, key) /\ ~isExpired(MapGet(m, key), t)
  THEN MapGet(m, key).data
  ELSE NULL

\* get without the delete of the expired entry.
GetStoreKeep(m, key, t) == m

\* get that stamps the entry it returns with the time of the read.
GetStoreTouch(m, key, t) ==
  IF HasKey(m, key) /\ ~isExpired(MapGet(m, key), t)
  THEN [i \in 1..Len(m) |->
          IF m[i].key = key THEN [m[i] EXCEPT !.timestamp = t] ELSE m[i]]
  ELSE MapDelete(m, key)

\* The store get(key) leaves behind: an expired entry is deleted.
GetStore(m, key, t) ==
  IF HasKey(m, key) /\ ~isExpired(MapGet(m, key), t)
  THEN m
  ELSE MapDelete(m, key)

\* The store set(key, data, ttl) leaves behind at time t.
SetStore(m, key, data, ttl, t) ==
  cleanupMemoryCache(
    MapSet(m, key, [key |-> key, data |-> data, timestamp |-> t, ttl |-> ttl]),
    t)

\* The loop of invalidatePattern over the keys of the map.
RECURSIVE InvalidateLoop(_, _, _)
InvalidateLoop(m, keys, pattern) ==
  IF Len(keys) = 0 THEN m
  ELSE InvalidateLoop(IF includes(Head(keys), pattern)
                      THEN MapDelete(m, Head(keys)) ELSE m,
                      Tail(keys), pattern)

\* The store invalidatePattern(pattern) leaves behind.
InvalidateStore(m, pattern) ==
  InvalidateLoop(m, [i \in 1..Len(m) |-> m[i].key], pattern)

\* The entries of store m that store m2 no longer holds.
Removed(m, m2) ==
  SelectSeq(m, LAMBDA e : \A i \in 1..Len(m2) : m2[i] # e)

(***************************************************************************)
(* Inputs of the store operations.                                         *)
(***************************************************************************)
\* Payloads handed to set.
Data == {"v1", "v2"}

TTLs == {0, MaxTTL}

\* (prefix, params) pairs the callers of get/set/delete pass; the matches
\* mapping appears in both insertion orders.
Requests ==
  { [prefix |-> "player_stats", params |-> << <<"playerId", Num(4)>> >>],
    [prefix |-> "player_stats", params |-> << <<"playerId", Num(42)>> >>],
    [prefix |-> "matches",
     params |-> << <<"tour", Str("ATP")>>, <<"days", Num(7)>> >>],
    [prefix |-> "matches",
     params |-> << <<"days", Num(7)>>, <<"tour", Str("ATP")>> >>] }

\* Substrings handed to invalidatePattern.
Patterns ==
  { "player_stats:playerId:42", "player_stats:playerId:4", "s:", "WTA" }

(***************************************************************************)
(* Operations.  ret records the last call: its name, its arguments (for    *)
(* the typed accessors, the ttl for set), the key it acted on, the value   *)
(* it was given or                                                         *)
(* returned, the entries it removed from the store, and whether it ended   *)
(* with an error.  db holds what the handlers read from the database and   *)
(* tasks the position of every concurrent caller (both empty where a       *)
(* specification has neither).                                             *)
(***************************************************************************)
Init ==
  /\ memoryCache = << >>
  /\ now = 0
  /\ db = << >>
  /\ tasks = << >>
  /\ ret = [op |-> "init", args |-> << >>, key |-> "", value |-> NULL,
            removed |-> << >>,
            threw |-> FALSE]

\* Time passes between calls.
Tick ==
  /\ now + MsPerSec <= MaxTicks * MsPerSec
  /\ now' = now + MsPerSec
  /\ ret' = [op |-> "tick", args |-> << >>, key |-> "", value |-> NULL,
             removed |-> << >>,
             threw |-> FALSE]
  /\ UNCHANGED <<memoryCache, db, tasks>>

\* get, called as op(args), once generateKey has rendered the key.
GetAs(op, args, key) ==
  /\ memoryCache' = GetStore(memoryCache, key, now)
  /\ ret' = [op |-> op, args |-> args, key |-> key,
             value |-> GetResult(memoryCache, key, now),
             removed |-> Removed(memoryCache, memoryCache'),
             threw |-> FALSE]
  /\ UNCHANGED <<now, db, tasks>>

\* set, called as op(args), once generateKey has rendered the key.
SetAs(op, args, key, data, ttl) ==
  LET inserted == MapSet(memoryCache, key,
                    [key |-> key, data |-> data, timestamp |-> now, ttl |-> ttl])
  IN
  /\ memoryCache' = SetStore(memoryCache, key, data, ttl, now)
  /\ ret' = [op |-> op, args |-> args, key |-> key, value |-> data,
             removed |-> Removed(inserted, memoryCache'),
             threw |-> FALSE]
  /\ UNCHANGED <<now, db, tasks>>

\* generateKey is called before the try block of get, set and delete: its
\* error leaves the method, the store is not touched.
Throw(op) ==
  /\ ret' = [op |-> op, args |-> << >>, key |-> "", value |-> NULL,
             removed |-> << >>, threw |-> TRUE]
  /\ UNCHANGED <<memoryCache, now, db, tasks>>

Get(prefix, params) ==
  IF KeyThrows(params) THEN Throw("get")
  ELSE GetAs("get", << >>, generateKey(prefix, params))

Set(prefix, params, data, ttl) ==
  IF KeyThrows(params) THEN Throw("set")
  ELSE SetAs("set", <<ttl>>, generateKey(prefix, params), data, ttl)

Delete(prefix, params) ==
  IF KeyThrows(params) THEN Throw("delete")
  ELSE LET key == generateKey(prefix, params) IN
       /\ memoryCache' = MapDelete(memoryCache, key)
       /\ ret' = [op |-> "delete", args |-> << >>, key |-> key,
                  value |-> NULL,
                  removed |-> Removed(memoryCache, memoryCache'),
                  threw |-> FALSE]
       /\ UNCHANGED <<now, db, tasks>>

InvalidatePattern(pattern) ==
  /\ memoryCache' = InvalidateStore(memoryCache, pattern)
  /\ ret' = [op |-> "invalidatePattern", args |-> <<pattern>>, key |-> "",
             value |-> NULL, removed |-> Removed(memoryCache, memoryCache'),
             threw |-> FALSE]
  /\ UNCHANGED <<now, db, tasks>>

Next ==
  \/ Tick
  \/ \E r \in Requests : Get(r.prefix, r.params)
  \/ \E r \in Requests, d \in Data, ttl \in TTLs :
        Set(r.prefix, r.params, d, ttl)
  \/ \E r \in Requests : Delete(r.prefix, r.params)
  \/ \E p \in Patterns : InvalidatePattern(p)

Spec == Init /\ [][Next]_vars

(***************************************************************************)
(* Key construction on its own: Init draws a prefix and two parameter      *)
(* mappings holding the same name/value pairs, GenerateKeys renders both.  *)
(***************************************************************************)
ParamNames == {"B", "a", "ab", "tour"}

ParamValues == {Num(7), Str("x")}

\* The mappings with i properties, as insertion-ordered sequences.
RECURSIVE MappingsOfLen(_)
MappingsOfLen(i) ==
  IF i = 0 THEN {<< >>}
  ELSE { Append(m, <<n, v>>) :
           m \in MappingsOfLen(i - 1), n \in ParamNames, v \in ParamValues }

Mappings ==
  { m \in UNION {MappingsOfLen(i) : i \in 0..MaxParams} :
      \A i, j \in 1..Len(m) : i # j => m[i][1] # m[j][1] }

\* Two mappings contain the same name/value pairs.
SameMapping(p1, p2) ==
  {p1[i] : i \in 1..Len(p1)} = {p2[i] : i \in 1..Len(p2)}

InitKey ==
  /\ memoryCache = << >>
  /\ now = 0
  /\ db = << >>
  /\ tasks = << >>
  /\ \E prefix \in {"matches", "p"}, p1 \in Mappings :
       \E p2 \in {q \in Mappings : SameMapping(p1, q)} :
          ret = [op |-> "args", args |-> <<prefix, p1, p2>>, key |-> "",
                 value |-> NULL, removed |-> << >>,
             threw |-> FALSE]

\* ret.key is the key of the first mapping, ret.value that of the second.
GenerateKeys ==
  /\ ret.op = "args"
  /\ ret' = [ret EXCEPT !.op = "generateKey",
                        !.key = generateKey(ret.args[1], ret.args[2]),
                        !.value = generateKey(ret.args[1], ret.args[3])]
  /\ UNCHANGED <<memoryCache, now, db, tasks>>

NextKey == GenerateKeys

SpecKey == InitKey /\ [][NextKey]_vars

(***************************************************************************)
(* The typed accessors for head-to-head records.                           *)
(***************************************************************************)
PlayerIds == {2, 10}

\* Ids of further players: 4 and 42 share their first digit.
MorePlayerIds == {4, 42}

\* The parameters without the normalization of the pair.
HeadToHeadParamsAsGiven(player1Id, player2Id) ==
  << <<"player1Id", Num(player1Id)>>, <<"player2Id", Num(player2Id)>> >>

\* Normalize player order for consistent caching.
HeadToHeadParams(player1Id, player2Id) ==
  LET p == IF player1Id < player2Id THEN <<player1Id, player2Id>>
                                    ELSE <<player2Id, player1Id>>
  IN  << <<"player1Id", Num(p[1])>>, <<"player2Id", Num(p[2])>> >>

\* The key either accessor hands to the store, tabulated over PlayerIds.
HeadToHeadKey ==
  [player1Id \in PlayerIds \cup MorePlayerIds,
   player2Id \in PlayerIds \cup MorePlayerIds |->
     generateKey("head_to_head", HeadToHeadParams(player1Id, player2Id))]

GetHeadToHead(player1Id, player2Id) ==
  GetAs("getHeadToHead", <<player1Id, player2Id>>,
        HeadToHeadKey[player1Id, player2Id])

SetHeadToHead(player1Id, player2Id, h2h, ttl) ==
  SetAs("setHeadToHead", <<player1Id, player2Id>>,
        HeadToHeadKey[player1Id, player2Id], h2h, ttl)

NextH2H ==
  \/ Tick
  \/ \E a, b \in PlayerIds : GetHeadToHead(a, b)
  \/ \E a, b \in PlayerIds, d \in Data : SetHeadToHead(a, b, d, MaxTTL)

SpecH2H == Init /\ [][NextH2H]_vars

(***************************************************************************)
(* The typed accessors for predictions.                                    *)
(***************************************************************************)
\* Player names as callers pass them, the empty name and a name that
\* spells a key delimiter included.
PlayerNames == {"A", "", "|player2name:"}

Surfaces == {"clay"}

\* An optional tournament level: << >> when the argument is left out.
TournamentLevels == {<< >>, <<"atp">>}

\* The two players named in a prediction request
\* (validatePredictionInput: non-empty, different names).
MatchPlayers == {"A", "B"}

\* tournament_level of a prediction request: absent, or any string.
RequestLevels == {<< >>, <<"matches:">>}

\* The tournament level left out of the key.
LevelIgnored(tournamentLevel) == "default"

\* tournamentLevel || 'default'
LevelOrDefault(tournamentLevel) ==
  IF tournamentLevel = << >> THEN "default"
  ELSE IF tournamentLevel[1] = "" THEN "default"
  ELSE tournamentLevel[1]

\* The parameters with the two names put in order, as for head-to-head.
PredictionParamsSorted(player1Name, player2Name, surface, tournamentLevel) ==
  LET a == toLowerCase(player1Name)
      b == toLowerCase(player2Name)
  IN  << <<"player1Name", Str(IF StrLess(b, a) THEN b ELSE a)>>,
         <<"player2Name", Str(IF StrLess(b, a) THEN a ELSE b)>>,
         <<"surface", Str(surface)>>,
         <<"tournamentLevel", Str(LevelOrDefault(tournamentLevel))>> >>

PredictionParams(player1Name, player2Name, surface, tournamentLevel) ==
  << <<"player1Name", Str(toLowerCase(player1Name))>>,
     <<"player2Name", Str(toLowerCase(player2Name))>>,
     <<"surface", Str(surface)>>,
     <<"tournamentLevel", Str(LevelOrDefault(tournamentLevel))>> >>

\* A third player, and names that differ in letter case only.
MoreNames == {"C", "c", "Ab", "aB"}

\* The key either accessor hands to the store, tabulated over the inputs.
PredictionKey ==
  [player1Name \in PlayerNames \cup MatchPlayers \cup MoreNames,
   player2Name \in PlayerNames \cup MatchPlayers \cup MoreNames,
   surface \in Surfaces,
   tournamentLevel \in TournamentLevels \cup RequestLevels |->
     generateKey("prediction",
       PredictionParams(player1Name, player2Name, surface, tournamentLevel))]

GetPrediction(player1Name, player2Name, surface, tournamentLevel) ==
  GetAs("getPrediction",
        <<player1Name, player2Name, surface, tournamentLevel>>,
        PredictionKey[player1Name, player2Name, surface, tournamentLevel])

SetPrediction(player1Name, player2Name, surface, prediction, tournamentLevel, ttl) ==
  SetAs("setPrediction",
        <<player1Name, player2Name, surface, tournamentLevel>>,
        PredictionKey[player1Name, player2Name, surface, tournamentLevel],
        prediction, ttl)

NextPrediction ==
  \/ \E a, b \in PlayerNames, s \in Surfaces, l \in TournamentLevels :
        GetPrediction(a, b, s, l)
  \/ \E a, b \in PlayerNames, s \in Surfaces, l \in TournamentLevels :
        SetPrediction(a, b, s, "v1", l, MaxTTL)

SpecPrediction == Init /\ [][NextPrediction]_vars

(***************************************************************************)
(* The invalidation helpers, next to the typed accessors that fill the     *)
(* store with player_stats, head_to_head and prediction entries.  A helper *)
(* runs its invalidatePattern calls one after the other.                   *)
(***************************************************************************)
PlayerStatsKey ==
  [playerId \in PlayerIds \cup MorePlayerIds |->
     generateKey("player_stats", << <<"playerId", Num(playerId)>> >>)]

SetPlayerStats(playerId, stats, ttl) ==
  SetAs("setPlayerStats", <<playerId>>, PlayerStatsKey[playerId], stats, ttl)

\* The three patterns of invalidatePlayerData, in call order.
PlayerDataPatterns(playerId) ==
  << "player_stats:playerId:" \o ToString(playerId),
     "head_to_head:player1Id:" \o ToString(playerId),
     "head_to_head:player2Id:" \o ToString(playerId) >>

\* The two patterns of invalidateMatchData, in call order.
MatchDataPatterns == << "matches:", "head_to_head:" >>

\* The pattern of invalidateAllPredictions.
AllPredictionsPatterns == << "prediction:" >>

\* The store left by invalidatePattern on each pattern in turn.
RECURSIVE InvalidateEach(_, _)
InvalidateEach(m, patterns) ==
  IF Len(patterns) = 0 THEN m
  ELSE InvalidateEach(InvalidateStore(m, Head(patterns)), Tail(patterns))

InvalidateAs(op, args, patterns) ==
  /\ memoryCache' = InvalidateEach(memoryCache, patterns)
  /\ ret' = [op |-> op, args |-> args, key |-> "", value |-> NULL,
             removed |-> Removed(memoryCache, memoryCache'),
             threw |-> FALSE]
  /\ UNCHANGED <<now, db, tasks>>

InvalidatePlayerData(playerId) ==
  InvalidateAs("invalidatePlayerData", <<playerId>>,
               PlayerDataPatterns(playerId))

InvalidateAllPredictions ==
  InvalidateAs("invalidateAllPredictions", << >>, AllPredictionsPatterns)

InvalidateMatchData ==
  InvalidateAs("invalidateMatchData", << >>, MatchDataPatterns)

\* Keys under which listPlayers, getPredictions and getMatches store.
AllPlayersKey == generateKey("all_players", << >>)

PredictionsListKey ==
  generateKey("predictions_list",
              << <<"limit", Num(50)>>, <<"player", Str("all")>> >>)

MatchesKey ==
  generateKey("matches", << <<"tour", Str("atp")>>, <<"days", Num(7)>> >>)

HandlerKeys == {AllPlayersKey, PredictionsListKey, MatchesKey}

\* listPlayers, getPredictions or getMatches stores its response.
HandlerStore(key) == SetAs("set", <<MaxTTL>>, key, "v1", MaxTTL)

NextInvalidate ==
  \/ \E p \in PlayerIds \cup MorePlayerIds : SetPlayerStats(p, "v1", MaxTTL)
  \/ \E key \in HandlerKeys : HandlerStore(key)
  \/ \E a, b \in PlayerIds : SetHeadToHead(a, b, "v1", MaxTTL)
  \/ \E l \in RequestLevels : SetPrediction("A", "B", "clay", "v1", l, MaxTTL)
  \/ \E p \in PlayerIds \cup MorePlayerIds : InvalidatePlayerData(p)
  \/ InvalidateAllPredictions
  \/ InvalidateMatchData

SpecInvalidate == Init /\ [][NextInvalidate]_vars

(***************************************************************************)
(* The scheduled job autoSyncData next to a predictMatch request.  Both   *)
(* are tasks on one event loop: a task gives way at each await, so a step  *)
(* below is the code between two awaits (a cache call or a database call). *)
(* db.stats counts the writes to the statistics of the player whose        *)
(* statistics the request reads (no step reads another row or the matches  *)
(* table); a cached statistic or prediction carries, as its payload, the   *)
(* count the statistics had when they were read.  The job                  *)
(* handles one ranking and one match per tour and one player in the        *)
(* recomputation; the request looks up the statistics of its first player  *)
(* and the head-to-head record of the pair.                                *)
(***************************************************************************)
Tours == <<"atp", "wta">>

\* The phases of autoSyncData in the order it awaits them.
PhaseOrder == <<"rankings", "matches", "stats", "stale">>

\* The patterns of invalidateStaleCache, in call order.
StaleCachePatternsPredictionsOnly == << "prediction:" >>

StaleCachePatterns == << "prediction:", "all_players", "predictions_list" >>

\* Promise.all([invalidatePlayerData(a), invalidatePlayerData(b)]): the two
\* calls advance in turn, one pattern each.
BothPlayersPatternsFirstOnly(a, b) == PlayerDataPatterns(a)

BothPlayersPatterns(a, b) ==
  [i \in 1..6 |-> IF i % 2 = 1 THEN PlayerDataPatterns(a)[(i + 1) \div 2]
                  ELSE PlayerDataPatterns(b)[i \div 2]]

\* The request predictMatch(A, B, clay): A is player 2, B is player 10.
RequestPlayerId == 2

RequestPredictionKey == PredictionKey["A", "B", "clay", << >>]

SyncIdle ==
  [pc |-> "idle", phase |-> 1, tour |-> 1, patterns |-> << >>,
   after |-> "", helper |-> "", args |-> << >>, snap |-> {},
   written |-> {}, purged |-> << >>, finished |-> {}]

RequestIdle == [pc |-> "idle", stats |-> ""]

InitSync ==
  /\ memoryCache = << >>
  /\ now = 0
  /\ db = [stats |-> 0]
  /\ tasks = [sync |-> SyncIdle, req |-> RequestIdle]
  /\ ret = [op |-> "init", args |-> << >>, key |-> "", value |-> NULL,
            removed |-> << >>, threw |-> FALSE]

PhaseName(s) == IF s.phase <= Len(PhaseOrder) THEN PhaseOrder[s.phase] ELSE ""

\* The phase returns: the next phase starts, or the job completes.
NextPhase(s) ==
  [s EXCEPT !.phase = s.phase + 1, !.tour = 1,
            !.pc = IF s.phase < Len(PhaseOrder) THEN "run" ELSE "done",
            !.finished = s.finished \cup {PhaseOrder[s.phase]}]

\* The for loop over the tours moves on.
NextTour(s) ==
  IF s.tour < Len(Tours) THEN [s EXCEPT !.tour = s.tour + 1, !.pc = "run"]
  ELSE NextPhase(s)

\* A helper is called; snapshot says whether the keys of the store are
\* recorded at the call.
CallHelper(s, helper, args, patterns, after, snapshot) ==
  [s EXCEPT !.pc = "purging", !.helper = helper, !.args = args,
            !.patterns = patterns, !.after = after, !.purged = << >>,
            !.written = {},
            !.snap = IF snapshot
                    THEN {memoryCache[i].key : i \in 1..Len(memoryCache)}
                    ELSE {}]

\* A set by another task while the job is inside or just behind a helper.
Track(s, key) ==
  IF s.snap # {} THEN [s EXCEPT !.written = s.written \cup {key}] ELSE s

StartSync ==
  /\ tasks.sync.pc = "idle"
  /\ tasks' = [tasks EXCEPT !.sync = [@ EXCEPT !.pc = "run"]]
  /\ UNCHANGED <<memoryCache, now, db, ret>>

\* A step of the job that touches neither the store nor the database.
SyncMove(phase, pc, s2) ==
  /\ tasks.sync.pc = pc
  /\ PhaseName(tasks.sync) = phase
  /\ tasks' = [tasks EXCEPT !.sync = s2]
  /\ UNCHANGED <<memoryCache, now, db, ret>>

\* A step of the job that writes player statistics.
SyncWriteStats(phase, playerId, s2) ==
  /\ tasks.sync.pc = "run"
  /\ PhaseName(tasks.sync) = phase
  /\ db' = IF playerId = RequestPlayerId
           THEN [db EXCEPT !.stats = @ + 1] ELSE db
  /\ tasks' = [tasks EXCEPT !.sync = s2]
  /\ UNCHANGED <<memoryCache, now, ret>>

\* syncRankingsAutomatically: getRankings fails, the tour's catch logs it.
RankingsFetchFailUncaught ==
  SyncMove("rankings", "run", [tasks.sync EXCEPT !.pc = "done"])

RankingsFetchFail == SyncMove("rankings", "run", NextTour(tasks.sync))

\* The ranking of a known player is upserted, then the player's entries
\* are invalidated.
RankingsUpsert(playerId) ==
  SyncWriteStats("rankings", playerId,
    CallHelper(tasks.sync, "invalidatePlayerData", <<playerId>>,
               PlayerDataPatterns(playerId), "tourdone", FALSE))

\* No ranking names a known player.
RankingsEmpty ==
  SyncMove("rankings", "run", [tasks.sync EXCEPT !.pc = "tourdone"])

\* After the batches: invalidatePattern(`rankings:tour:${tour}`).
RankingsInvalidateAllTours ==
  SyncMove("rankings", "tourdone",
    CallHelper(tasks.sync, "invalidatePattern", << >>, << "rankings:" >>,
               "nexttour", FALSE))

RankingsInvalidate ==
  SyncMove("rankings", "tourdone",
    CallHelper(tasks.sync, "invalidatePattern", << >>,
               << "rankings:tour:" \o Tours[tasks.sync.tour] >>,
               "nexttour", FALSE))

\* syncRecentMatchesAutomatically: getRecentMatches fails.
MatchesFetchFail == SyncMove("matches", "run", NextTour(tasks.sync))

\* A new completed match of two known players is inserted, then both
\* players' entries are invalidated.
MatchesInsert(player1Id, player2Id) ==
  SyncMove("matches", "run",
    CallHelper(tasks.sync, "invalidatePlayerData", <<player1Id, player2Id>>,
               BothPlayersPatterns(player1Id, player2Id), "tourdone", FALSE))

\* The match is not completed, names an unknown player or is stored already.
MatchesSkip ==
  SyncMove("matches", "run", [tasks.sync EXCEPT !.pc = "tourdone"])

\* After the batches: invalidateMatchData().
MatchesInvalidate ==
  SyncMove("matches", "tourdone",
    CallHelper(tasks.sync, "invalidateMatchData", << >>, MatchDataPatterns,
               "nexttour", TRUE))

\* updatePlayerStatistics: no player has matches, or the pass fails.
StatsSkip == SyncMove("stats", "run", NextPhase(tasks.sync))

\* The statistics of a player are recomputed and written, then the
\* player's entries are invalidated.
StatsUpdate(playerId) ==
  SyncWriteStats("stats", playerId,
    CallHelper(tasks.sync, "invalidatePlayerData", <<playerId>>,
               PlayerDataPatterns(playerId), "nextphase", FALSE))

\* invalidateStaleCache is called.
InvalidateStaleCache ==
  SyncMove("stale", "run",
    CallHelper(tasks.sync, "invalidateStaleCache", << >>, StaleCachePatterns,
               "nextphase", TRUE))

\* The next awaited invalidatePattern of the helper the job is in.
PurgeNext ==
  LET s == tasks.sync IN
  /\ s.pc = "purging"
  /\ memoryCache' = InvalidateStore(memoryCache, Head(s.patterns))
  /\ tasks' = [tasks EXCEPT !.sync =
       [s EXCEPT !.patterns = Tail(s.patterns),
                 !.purged = Append(s.purged, Head(s.patterns)),
                 !.pc = IF Len(s.patterns) = 1 THEN "returned" ELSE "purging"]]
  /\ UNCHANGED <<now, db, ret>>

\* The helper has returned; the job goes on behind the call.
Resume ==
  LET s == tasks.sync
      c == [s EXCEPT !.helper = "", !.args = << >>, !.snap = {},
                     !.written = {}, !.purged = << >>, !.after = ""]
  IN
  /\ s.pc = "returned"
  /\ tasks' = [tasks EXCEPT !.sync =
       IF s.after = "tourdone" THEN [c EXCEPT !.pc = "tourdone"]
       ELSE IF s.after = "nexttour" THEN NextTour(c)
       ELSE NextPhase(c)]
  /\ UNCHANGED <<memoryCache, now, db, ret>>

\* A cache read of the request at position pc; hit and miss give the
\* request's next position.
RequestGet(pc, key, hit, miss) ==
  /\ tasks.req.pc = pc
  /\ memoryCache' = GetStore(memoryCache, key, now)
  /\ tasks' = [tasks EXCEPT !.req =
       IF GetResult(memoryCache, key, now) # NULL
       THEN [@ EXCEPT !.pc = hit] ELSE [@ EXCEPT !.pc = miss]]
  /\ UNCHANGED <<now, db, ret>>

\* A cache write of the request at position pc.
RequestSet(pc, key, data, next) ==
  /\ tasks.req.pc = pc
  /\ memoryCache' = SetStore(memoryCache, key, data, MaxTTL, now)
  /\ tasks' = [sync |-> Track(tasks.sync, key),
               req |-> IF next = "idle" THEN RequestIdle
                       ELSE [tasks.req EXCEPT !.pc = next]]
  /\ UNCHANGED <<now, db, ret>>

\* predictMatch: cache.getPrediction; a cached prediction is returned.
RequestGetPrediction ==
  RequestGet("idle", RequestPredictionKey, "idle", "stats")

\* getPlayerStatsOptimized: cache.getPlayerStats; cached statistics are
\* the ones used.
RequestGetPlayerStats ==
  /\ tasks.req.pc = "stats"
  /\ memoryCache' = GetStore(memoryCache, PlayerStatsKey[RequestPlayerId], now)
  /\ tasks' = [tasks EXCEPT !.req =
       IF GetResult(memoryCache, PlayerStatsKey[RequestPlayerId], now) # NULL
       THEN [pc |-> "h2h",
             stats |-> GetResult(memoryCache, PlayerStatsKey[RequestPlayerId], now)]
       ELSE [@ EXCEPT !.pc = "statsquery"]]
  /\ UNCHANGED <<now, db, ret>>

\* The query on player_stats returns the statistics of that moment.
RequestQueryStats ==
  /\ tasks.req.pc = "statsquery"
  /\ tasks' = [tasks EXCEPT !.req =
       [pc |-> "statsset", stats |-> ToString(db.stats)]]
  /\ UNCHANGED <<memoryCache, now, db, ret>>

RequestSetPlayerStats ==
  RequestSet("statsset", PlayerStatsKey[RequestPlayerId], tasks.req.stats, "h2h")

\* getHeadToHeadOptimized: cache.getHeadToHead.
RequestGetHeadToHead ==
  RequestGet("h2h", HeadToHeadKey[2, 10], "predset", "h2hset")

\* The query on head_to_head, then cache.setHeadToHead.
RequestSetHeadToHead ==
  RequestSet("h2hset", HeadToHeadKey[2, 10], "v1", "predset")

\* The prediction computed from the statistics in hand is cached.
RequestSetPrediction ==
  RequestSet("predset", RequestPredictionKey, tasks.req.stats, "idle")

\* listPlayers, getPredictions or getMatches stores its response.
HandlerSet(key) ==
  /\ memoryCache' = SetStore(memoryCache, key, "v1", MaxTTL, now)
  /\ tasks' = [tasks EXCEPT !.sync = Track(@, key)]
  /\ UNCHANGED <<now, db, ret>>

NextSync ==
  \/ StartSync
  \/ RankingsFetchFail
  \/ \E p \in PlayerIds : RankingsUpsert(p)
  \/ RankingsEmpty
  \/ RankingsInvalidate
  \/ MatchesFetchFail
  \/ \E a, b \in PlayerIds : a # b /\ MatchesInsert(a, b)
  \/ MatchesSkip
  \/ MatchesInvalidate
  \/ StatsSkip
  \/ \E p \in PlayerIds : StatsUpdate(p)
  \/ InvalidateStaleCache
  \/ PurgeNext
  \/ Resume
  \/ RequestGetPrediction
  \/ RequestGetPlayerStats
  \/ RequestQueryStats
  \/ RequestSetPlayerStats
  \/ RequestGetHeadToHead
  \/ RequestSetHeadToHead
  \/ RequestSetPrediction
  \/ \E k \in HandlerKeys : HandlerSet(k)

SpecSync == InitSync /\ [][NextSync]_vars

\* The key of getRankings / setRankings for each tour.
RankingsKey ==
  [tour \in {Tours[i] : i \in 1..Len(Tours)} |->
     generateKey("rankings", << <<"tour", Str(tour)>> >>)]

\* A step of autoSyncData: the continuation behind an await that settled.
JobStep ==
  \/ StartSync
  \/ RankingsFetchFail
  \/ \E p \in PlayerIds : RankingsUpsert(p)
  \/ RankingsEmpty
  \/ RankingsInvalidate
  \/ MatchesFetchFail
  \/ \E a, b \in PlayerIds : a # b /\ MatchesInsert(a, b)
  \/ MatchesSkip
  \/ MatchesInvalidate
  \/ StatsSkip
  \/ \E p \in PlayerIds : StatsUpdate(p)
  \/ InvalidateStaleCache
  \/ PurgeNext
  \/ Resume

\* The job next to listPlayers and fetchLiveRankingsWithCache, which store
\* their responses at any time.
NextJob ==
  \/ JobStep
  \/ HandlerSet(AllPlayersKey)
  \/ \E i \in 1..Len(Tours) : HandlerSet(RankingsKey[Tours[i]])

\* Every await of the job settles (a cache call is in memory; an API or
\* database call returns or throws) and the event loop runs the
\* continuation of a settled await, however many handlers run besides.
SpecJob == InitSync /\ [][NextJob]_vars /\ WF_vars(JobStep)

(***************************************************************************)
(* Writes to the players table (uploadData, uploadFile, syncData) next to  *)
(* the cached readers listPlayers and getPlayer.  db.players counts the    *)
(* writes; a cached response carries the count the table had when it was   *)
(* read.  A reader gives way at each await.                                *)
(***************************************************************************)
\* Writes to the players table in one run of the model.
MaxWrites == 2

\* getPlayer("A"): cache.get('player_data', { name: name.toLowerCase() }).
PlayerDataKey ==
  generateKey("player_data", << <<"name", Str(toLowerCase("A"))>> >>)

ReaderIdle == [pc |-> "idle", response |-> ""]

InitPlayers ==
  /\ memoryCache = << >>
  /\ now = 0
  /\ db = [players |-> 0]
  /\ tasks = [list |-> ReaderIdle, get |-> ReaderIdle]
  /\ ret = [op |-> "init", args |-> << >>, key |-> "", value |-> NULL,
            removed |-> << >>, threw |-> FALSE]

\* INSERT ... ON CONFLICT (name) DO UPDATE, and nothing else.
WritePlayer ==
  /\ db.players < MaxWrites
  /\ db' = [db EXCEPT !.players = @ + 1]
  /\ UNCHANGED <<memoryCache, now, ret, tasks>>

\* uploadData / uploadFile: processPlayerRecord.
UploadPlayerRecord == WritePlayer

\* syncData: syncPlayers inserts or updates the player.
SyncPlayers == WritePlayer

\* The reader checks the cache: a cached response is returned.
ReaderGet(reader, op, key) ==
  /\ tasks[reader].pc = "idle"
  /\ memoryCache' = GetStore(memoryCache, key, now)
  /\ tasks' = [tasks EXCEPT ![reader] =
       IF GetResult(memoryCache, key, now) # NULL
       THEN ReaderIdle ELSE [pc |-> "query", response |-> ""]]
  /\ ret' = [op |-> op, args |-> << >>, key |-> key,
             value |-> GetResult(memoryCache, key, now),
             removed |-> << >>, threw |-> FALSE]
  /\ UNCHANGED <<now, db>>

\* The reader queries the players table.
ReaderQuery(reader) ==
  /\ tasks[reader].pc = "query"
  /\ tasks' = [tasks EXCEPT ![reader] =
       [pc |-> "set", response |-> ToString(db.players)]]
  /\ UNCHANGED <<memoryCache, now, db, ret>>

\* The reader caches its response and returns it.
ReaderSet(reader, op, key) ==
  /\ tasks[reader].pc = "set"
  /\ memoryCache' = SetStore(memoryCache, key, tasks[reader].response,
                             MaxTTL, now)
  /\ tasks' = [tasks EXCEPT ![reader] = ReaderIdle]
  /\ ret' = [op |-> op, args |-> << >>, key |-> key,
             value |-> tasks[reader].response,
             removed |-> << >>, threw |-> FALSE]
  /\ UNCHANGED <<now, db>>

NextPlayers ==
  \/ UploadPlayerRecord
  \/ SyncPlayers
  \/ ReaderGet("list", "listPlayers", AllPlayersKey)
  \/ ReaderQuery("list")
  \/ ReaderSet("list", "listPlayers", AllPlayersKey)
  \/ ReaderGet("get", "getPlayer", PlayerDataKey)
  \/ ReaderQuery("get")
  \/ ReaderSet("get", "getPlayer", PlayerDataKey)

SpecPlayers == InitPlayers /\ [][NextPlayers]_vars

(***************************************************************************)
(* Request tasks calling the store concurrently.  The bodies of get, set   *)
(* and invalidatePattern are split into their successive Map operations;   *)
(* tasks.running is the task that holds the event loop (0 when it is       *)
(* free).  A task that has started a call keeps the loop until the call    *)
(* reaches an await or returns.  A request checks the cache, and after a   *)
(* miss computes its value and stores it.                                  *)
(***************************************************************************)
TaskIds == {1, 2}

\* The value a task computes and the TTL it passes to set.
TaskData(task) == IF task = 1 THEN "v1" ELSE "v2"

TaskTTL(task) == IF task = 1 THEN MaxTTL ELSE MaxTTL - 1

TaskKeys == {PlayerStatsKey[2], PlayerStatsKey[10], MatchesKey}

TaskPatterns == {"player_stats:playerId:", "matches:"}

\* The positions inside get, set and invalidatePattern at which the method
\* awaits: a set label releases the event loop at that position.
AwaitPointsAfterInsert == {"inserted"}

AwaitPoints == {}

\* Positions between two Map operations of one call.
MidCall == {"expired", "inserted", "cleaning", "purging"}

TaskIdle ==
  [pc |-> "idle", op |-> "", key |-> "", pattern |-> "", todo |-> << >>,
   start |-> << >>]

InitTasks ==
  /\ memoryCache = << >>
  /\ now = 0
  /\ db = << >>
  /\ tasks = [running |-> 0, overlap |-> FALSE,
              t |-> [task \in TaskIds |-> TaskIdle]]
  /\ ret = [op |-> "init", args |-> << >>, key |-> "", value |-> NULL,
            removed |-> << >>, threw |-> FALSE]

\* Time passes while the event loop is free.
TaskTick ==
  /\ tasks.running = 0
  /\ now + MsPerSec <= MaxTicks * MsPerSec
  /\ now' = now + MsPerSec
  /\ ret' = [op |-> "tick", args |-> << >>, key |-> "", value |-> NULL,
             removed |-> << >>, threw |-> FALSE]
  /\ UNCHANGED <<memoryCache, db, tasks>>

\* Who holds the event loop when the task stops at position pc.
Holder(task, pc) ==
  IF pc \in MidCall /\ pc \notin AwaitPoints THEN task ELSE 0

\* The task may take the step that leaves position pc.
MayRun(task, pc) ==
  /\ tasks.t[task].pc = pc
  /\ tasks.running = IF pc \in MidCall /\ pc \notin AwaitPoints THEN task ELSE 0

\* The call returns value; the task goes on at position pc.
Return(task, op, key, value, pc) ==
  /\ ret' = [op |-> op, args |-> <<task>>, key |-> key, value |-> value,
             removed |-> << >>, threw |-> FALSE]
  /\ tasks' = [tasks EXCEPT
       !.running = 0,
       !.overlap = IF op = "get" /\ value = NULL
                   THEN \E u \in TaskIds \ {task} :
                           tasks.t[u].pc = "computing" /\ tasks.t[u].key = key
                   ELSE @,
       !.t[task] = [TaskIdle EXCEPT !.pc = pc,
                      !.key = IF pc = "computing" THEN key ELSE ""]]

\* The call goes on at position pc of its body.
Continue(task, rec, pc) ==
  /\ tasks' = [tasks EXCEPT !.running = Holder(task, pc),
                            !.t[task] = [rec EXCEPT !.pc = pc]]
  /\ UNCHANGED ret

\* get: memoryCache.get(key) and the test of the entry.
TaskGet(task, key) ==
  /\ MayRun(task, "idle")
  /\ UNCHANGED <<memoryCache, now, db>>
  /\ IF ~HasKey(memoryCache, key)
     THEN Return(task, "get", key, NULL, "computing")
     ELSE IF ~isExpired(MapGet(memoryCache, key), now)
     THEN Return(task, "get", key, MapGet(memoryCache, key).data, "idle")
     ELSE Continue(task, [TaskIdle EXCEPT !.op = "get", !.key = key,
                                          !.start = memoryCache], "expired")

\* get: memoryCache.delete(key) of the expired entry, return null.
TaskGetDelete(task) ==
  /\ MayRun(task, "expired")
  /\ memoryCache' = MapDelete(memoryCache, tasks.t[task].key)
  /\ Return(task, "get", tasks.t[task].key, NULL, "computing")
  /\ UNCHANGED <<now, db>>

\* set after the miss: memoryCache.set(key, entry), then the size test of
\* cleanupMemoryCache.
TaskSetInsert(task) ==
  LET key == tasks.t[task].key IN
  /\ MayRun(task, "computing")
  /\ memoryCache' = MapSet(memoryCache, key,
       [key |-> key, data |-> TaskData(task), timestamp |-> now,
        ttl |-> TaskTTL(task)])
  /\ IF Len(memoryCache') <= maxMemoryCacheSize
     THEN Return(task, "set", key, TaskData(task), "idle")
     ELSE Continue(task, [TaskIdle EXCEPT !.op = "set", !.key = key,
                                          !.start = memoryCache], "inserted")
  /\ UNCHANGED <<now, db>>

\* cleanupMemoryCache: the loop that deletes the expired entries, then the
\* second size test.
TaskSetRemoveExpired(task) ==
  /\ MayRun(task, "inserted")
  /\ memoryCache' = RemoveExpired(memoryCache, now)
  /\ IF Len(memoryCache') <= maxMemoryCacheSize
     THEN Return(task, "set", tasks.t[task].key, TaskData(task), "idle")
     ELSE Continue(task, tasks.t[task], "cleaning")
  /\ UNCHANGED <<now, db>>

\* cleanupMemoryCache: the oldest entries are deleted.
TaskSetRemoveOldest(task) ==
  /\ MayRun(task, "cleaning")
  /\ memoryCache' = RemoveOldest(memoryCache)
  /\ Return(task, "set", tasks.t[task].key, TaskData(task), "idle")
  /\ UNCHANGED <<now, db>>

TaskDelete(task, key) ==
  /\ MayRun(task, "idle")
  /\ memoryCache' = MapDelete(memoryCache, key)
  /\ Return(task, "delete", key, NULL, "idle")
  /\ UNCHANGED <<now, db>>

\* invalidatePattern: the iterator over the keys is taken.
TaskPurgeStart(task, pattern) ==
  /\ MayRun(task, "idle")
  /\ Len(memoryCache) > 0
  /\ Continue(task, [TaskIdle EXCEPT !.op = "invalidatePattern",
                       !.pattern = pattern, !.start = memoryCache,
                       !.todo = [i \in 1..Len(memoryCache) |-> memoryCache[i].key]],
              "purging")
  /\ UNCHANGED <<memoryCache, now, db>>

\* invalidatePattern: one turn of the loop.
TaskPurgeKey(task) ==
  LET rec == tasks.t[task] IN
  /\ MayRun(task, "purging")
  /\ memoryCache' = IF includes(Head(rec.todo), rec.pattern)
                    THEN MapDelete(memoryCache, Head(rec.todo))
                    ELSE memoryCache
  /\ IF Len(rec.todo) = 1
     THEN Return(task, "invalidatePattern", "", NULL, "idle")
     ELSE Continue(task, [rec EXCEPT !.todo = Tail(rec.todo)], "purging")
  /\ UNCHANGED <<now, db>>

NextTasks ==
  \/ TaskTick
  \/ \E task \in TaskIds, key \in TaskKeys : TaskGet(task, key)
  \/ \E task \in TaskIds : TaskGetDelete(task)
  \/ \E task \in TaskIds : TaskSetInsert(task)
  \/ \E task \in TaskIds : TaskSetRemoveExpired(task)
  \/ \E task \in TaskIds : TaskSetRemoveOldest(task)
  \/ \E task \in TaskIds, key \in TaskKeys : TaskDelete(task, key)
  \/ \E task \in TaskIds, pattern \in TaskPatterns : TaskPurgeStart(task, pattern)
  \/ \E task \in TaskIds : TaskPurgeKey(task)

SpecTasks == InitTasks /\ [][NextTasks]_vars

(***************************************************************************)
(* The store operations called with parameter mappings of every kind of    *)
(* value: scalars, an array, a plain object and a symbol.                  *)
(***************************************************************************)
CallerParams ==
  { << <<"playerId", Num(4)>> >>,
    << <<"player", Str("all")>>, <<"limit", Num(50)>> >>,
    << <<"indoor", Bool(TRUE)>> >>,
    << <<"ids", Arr(<<2, 10>>)>> >>,
    << <<"filter", Obj>> >>,
    << <<"tag", Sym>> >> }

\* Every value of the mapping is a number, a string or a boolean.
Scalar(params) ==
  \A i \in 1..Len(params) :
     DOMAIN params[i][2] \subseteq {"num", "str", "bool"}

CallerPrefixes == {"p", ""}

NextParams ==
  \/ \E prefix \in CallerPrefixes, params \in CallerParams :
        Get(prefix, params)
  \/ \E prefix \in CallerPrefixes, params \in CallerParams :
        Set(prefix, params, "v1", MaxTTL)
  \/ \E prefix \in CallerPrefixes, params \in CallerParams :
        Delete(prefix, params)
  \/ \E pattern \in {"p:", "Object", ""} : InvalidatePattern(pattern)

SpecParams == Init /\ [][NextParams]_vars

(***************************************************************************)
(* Start-up: the module creates the one CacheManager; its constructor      *)
(* calls initializeRedis, which reads the RedisURL secret.  db.secret is   *)
(* what reading the secret does; tasks is the state of the module.         *)
(***************************************************************************)
\* redisURL(): a non-empty url, the empty string, or an exception.
SecretOutcomes == {"present", "empty", "throws"}

\* initializeRedis without its try/catch: the exception of redisURL()
\* rejects the promise the constructor leaves unhandled.
initializeRedisUncaught(secret) ==
  IF secret = "throws" THEN [rejected |-> TRUE, log |-> "none"]
  ELSE IF secret = "present" THEN [rejected |-> FALSE, log |-> "log"]
  ELSE [rejected |-> FALSE, log |-> "none"]

\* initializeRedis has no await: it runs to its end inside the constructor.
\* A url is logged and not used; an exception is caught and logged.
initializeRedis(secret) ==
  IF secret = "throws" THEN [rejected |-> FALSE, log |-> "warn"]
  ELSE IF secret = "present" THEN [rejected |-> FALSE, log |-> "log"]
  ELSE [rejected |-> FALSE, log |-> "none"]

InitStartup ==
  /\ memoryCache = << >>
  /\ now = 0
  /\ db \in [secret : SecretOutcomes]
  /\ tasks = [pc |-> "module", log |-> "none", redisClient |-> NULL]
  /\ ret = [op |-> "init", args |-> << >>, key |-> "", value |-> NULL,
            removed |-> << >>, threw |-> FALSE]

\* export const cache = new CacheManager()
Construct ==
  /\ tasks.pc = "module"
  /\ LET r == initializeRedis(db.secret) IN
     tasks' = [pc |-> IF r.rejected THEN "failed" ELSE "ready",
               log |-> r.log, redisClient |-> NULL]
  /\ ret' = [op |-> "new", args |-> << >>, key |-> "", value |-> NULL,
             removed |-> << >>, threw |-> FALSE]
  /\ UNCHANGED <<memoryCache, now, db>>

\* The (prefix, params) pairs of the calls made after start-up.
StartupRequests == {r \in Requests : r.prefix = "player_stats"}

NextStartup ==
  \/ Construct
  \/ tasks.pc = "ready" /\ Tick
  \/ tasks.pc = "ready" /\ \E r \in StartupRequests : Get(r.prefix, r.params)
  \/ tasks.pc = "ready" /\ \E r \in StartupRequests, d \in Data, ttl \in TTLs :
        Set(r.prefix, r.params, d, ttl)
  \/ tasks.pc = "ready" /\ \E r \in StartupRequests : Delete(r.prefix, r.params)
  \/ tasks.pc = "ready" /\ \E p \in Patterns : InvalidatePattern(p)

SpecStartup == InitStartup /\ [][NextStartup]_vars

(***************************************************************************)
(* predictMatch, one request at a time.  db is the database of the run:    *)
(* the names found in players, the ids that have a player_stats row and    *)
(* the head_to_head row of the pair (NULL: no row).  tasks is the request: *)
(* its position, its input, the three lookups started by Promise.all, how  *)
(* it ended, and the prediction entries the store held when it started.    *)
(***************************************************************************)
ValidSurfaces == {"clay", "grass", "hard", "indoor"}

\* Request bodies: a name may be empty, the two names may be the same, the
\* surface may be one that is not played on.  A is player 2, B player 10
\* and C player 4; C has no statistics yet, and may have no row at all.
PredictInputs ==
  [player1_name : {"A", ""}, player2_name : {"B", "C", "A"},
   surface : {"clay", "carpet"}, tournament_level : RequestLevels]

\* validatePredictionInput throws.
validatePredictionInput(input) ==
  \/ input.player1_name = ""
  \/ input.player2_name = ""
  \/ toLowerCase(input.player1_name) = toLowerCase(input.player2_name)
  \/ input.surface \notin ValidSurfaces

\* players.id of a name.
PlayerIdOf(name) == IF name = "A" THEN 2 ELSE IF name = "B" THEN 10 ELSE 4

\* Promise.allSettled in the place of Promise.all: it waits for every
\* lookup and resolves although one of them threw.
PromiseAllSettled(c) ==
  IF \A i \in DOMAIN c : c[i] \in {"done", "failed"} THEN "resolved"
  ELSE "pending"

\* Promise.all over the lookups: rejected as soon as one of them threw,
\* resolved when all have returned.
PromiseAll(c) ==
  IF \E i \in DOMAIN c : c[i] = "failed" THEN "rejected"
  ELSE IF \A i \in DOMAIN c : c[i] = "done" THEN "resolved"
  ELSE "pending"

\* No lookup is still running.
Settled(c) == \A i \in DOMAIN c : c[i] \in {"done", "failed"}

\* The entries of the prediction family in store m.
PredictionEntries(m) ==
  {e \in {m[i] : i \in 1..Len(m)} : includes(e.key, "prediction:")}

PredictIdle ==
  [pc |-> "idle", input |-> << >>, chains |-> << >>, outcome |-> "none",
   snap |-> {}]

InitPredict ==
  /\ memoryCache = << >>
  /\ now = 0
  /\ db \in [players : {{"A", "B", "C"}, {"A", "B"}},
              stats : {{2, 10}}, h2h : {NULL, "row"}]
  /\ tasks = PredictIdle
  /\ ret = [op |-> "init", args |-> << >>, key |-> "", value |-> NULL,
            removed |-> << >>, threw |-> FALSE]

\* Time passes between two requests.
PredictTick ==
  /\ tasks.pc = "idle"
  /\ now + MsPerSec <= MaxTicks * MsPerSec
  /\ now' = now + MsPerSec
  /\ UNCHANGED <<memoryCache, db, tasks, ret>>

\* The handler starts: validatePredictionInput throws invalidArgument, or
\* the request goes on to the cache.
PredictStart(input) ==
  /\ tasks.pc = "idle"
  /\ tasks' = [PredictIdle EXCEPT
       !.input = input,
       !.snap = PredictionEntries(memoryCache),
       !.pc = IF validatePredictionInput(input) THEN "idle" ELSE "getPrediction",
       !.outcome = IF validatePredictionInput(input) THEN "error" ELSE "none"]
  /\ UNCHANGED <<memoryCache, now, db, ret>>

PredictKey(input) ==
  PredictionKey[input.player1_name, input.player2_name, input.surface,
                input.tournament_level]

\* cache.getPrediction: a cached prediction is the response.
PredictGetPrediction ==
  /\ tasks.pc = "getPrediction"
  /\ memoryCache' = GetStore(memoryCache, PredictKey(tasks.input), now)
  /\ tasks' = IF GetResult(memoryCache, PredictKey(tasks.input), now) # NULL
              THEN [tasks EXCEPT !.pc = "idle", !.outcome = "cached"]
              ELSE [tasks EXCEPT !.pc = "players"]
  /\ UNCHANGED <<now, db, ret>>

\* getPlayerByNameOptimized for both names: notFound when a name has no
\* row; otherwise the three lookups start, and each runs up to its first
\* await, which is its cache get: getPlayerStats for either player, then
\* getHeadToHead.  A get that returns null (a miss, or an entry whose data
\* is null) sends the lookup to the database.
PredictGetPlayers ==
  /\ tasks.pc = "players"
  /\ LET in == tasks.input
         k1 == PlayerStatsKey[PlayerIdOf(in.player1_name)]
         k2 == PlayerStatsKey[PlayerIdOf(in.player2_name)]
         kh == HeadToHeadKey[PlayerIdOf(in.player1_name),
                             PlayerIdOf(in.player2_name)]
         m1 == GetStore(memoryCache, k1, now)
         m2 == GetStore(m1, k2, now)
         Lookup1(m, k) == IF GetResult(m, k, now) # NULL THEN "done" ELSE "query"
     IN  IF {in.player1_name, in.player2_name} \subseteq db.players
         THEN /\ memoryCache' = GetStore(m2, kh, now)
              /\ tasks' = [tasks EXCEPT
                   !.pc = "lookups",
                   !.chains = [s1 |-> Lookup1(memoryCache, k1),
                               s2 |-> Lookup1(m1, k2),
                               h |-> Lookup1(m2, kh)]]
         ELSE /\ memoryCache' = memoryCache
              /\ tasks' = [tasks EXCEPT !.pc = "idle", !.outcome = "error"]
  /\ UNCHANGED <<now, db, ret>>

\* The player of lookup s1 or s2.
ChainPlayer(chain) ==
  PlayerIdOf(IF chain = "s1" THEN tasks.input.player1_name
             ELSE tasks.input.player2_name)

\* getPlayerStatsOptimized after its miss: the query finds the latest row
\* or throws notFound.
StatsQuery(chain) ==
  /\ tasks.pc \in {"lookups", "ended"}
  /\ tasks.chains[chain] = "query"
  /\ tasks' = [tasks EXCEPT !.chains[chain] =
       IF ChainPlayer(chain) \in db.stats THEN "set" ELSE "failed"]
  /\ UNCHANGED <<memoryCache, now, db, ret>>

\* cache.setPlayerStats(playerId, stats, 600)
StatsSet(chain) ==
  /\ tasks.pc \in {"lookups", "ended"}
  /\ tasks.chains[chain] = "set"
  /\ memoryCache' = SetStore(memoryCache, PlayerStatsKey[ChainPlayer(chain)],
                             "v1", MaxTTL, now)
  /\ tasks' = [tasks EXCEPT !.chains[chain] = "done"]
  /\ UNCHANGED <<now, db, ret>>

\* getHeadToHeadOptimized after its miss: the query on head_to_head.
HeadToHeadQuery ==
  /\ tasks.pc \in {"lookups", "ended"}
  /\ tasks.chains.h = "query"
  /\ tasks' = [tasks EXCEPT !.chains.h = "set"]
  /\ UNCHANGED <<memoryCache, now, db, ret>>

\* cache.setHeadToHead(player1Id, player2Id, h2h, 1800), also when the
\* query found no row and h2h is null.
HeadToHeadSet ==
  /\ tasks.pc \in {"lookups", "ended"}
  /\ tasks.chains.h = "set"
  /\ memoryCache' =
       SetStore(memoryCache,
                HeadToHeadKey[PlayerIdOf(tasks.input.player1_name),
                              PlayerIdOf(tasks.input.player2_name)],
                db.h2h, MaxTTL, now)
  /\ tasks' = [tasks EXCEPT !.chains.h = "done"]
  /\ UNCHANGED <<now, db, ret>>

\* Promise.all resolved: the prediction is computed, cached by
\* cache.setPrediction(..., 3600) and returned.
PredictSetPrediction ==
  /\ tasks.pc = "lookups"
  /\ PromiseAll(tasks.chains) = "resolved"
  /\ memoryCache' = SetStore(memoryCache, PredictKey(tasks.input), "v1",
                             MaxTTL, now)
  /\ tasks' = [tasks EXCEPT !.pc = "idle", !.outcome = "ok"]
  /\ UNCHANGED <<now, db, ret>>

\* calculateMatchPredictionOptimized throws: the handler ends in an
\* internal error.
PredictComputeFails ==
  /\ tasks.pc = "lookups"
  /\ PromiseAll(tasks.chains) = "resolved"
  /\ tasks' = [tasks EXCEPT !.pc = "idle", !.outcome = "error"]
  /\ UNCHANGED <<memoryCache, now, db, ret>>

\* Promise.all rejected: the handler ends in the error of the lookup,
\* the other lookups run on.
PredictReject ==
  /\ tasks.pc = "lookups"
  /\ PromiseAll(tasks.chains) = "rejected"
  /\ tasks' = [tasks EXCEPT !.pc = "ended", !.outcome = "error"]
  /\ UNCHANGED <<memoryCache, now, db, ret>>

\* The lookups left running by a rejected Promise.all have all returned.
PredictSettle ==
  /\ tasks.pc = "ended"
  /\ Settled(tasks.chains)
  /\ tasks' = [tasks EXCEPT !.pc = "idle"]
  /\ UNCHANGED <<memoryCache, now, db, ret>>

NextPredict ==
  \/ PredictTick
  \/ \E input \in PredictInputs : PredictStart(input)
  \/ PredictGetPrediction
  \/ PredictGetPlayers
  \/ \E chain \in {"s1", "s2"} : StatsQuery(chain)
  \/ \E chain \in {"s1", "s2"} : StatsSet(chain)
  \/ HeadToHeadQuery
  \/ HeadToHeadSet
  \/ PredictSetPrediction
  \/ PredictComputeFails
  \/ PredictReject
  \/ PredictSettle

SpecPredict == InitPredict /\ [][NextPredict]_vars

(***************************************************************************)
(* The prediction key on its own: Init draws the arguments of two calls of *)
(* getPrediction / setPrediction, GeneratePredictionKeys renders both keys.*)
(***************************************************************************)
\* Names with both letter cases and with the delimiters of a key.
UniqueNames == {"A", "a", "a|surface:clay", "|player2name:a", ":"}

UniqueSurfaces == {"clay", "grass"}

\* Levels: left out, empty, the default's own name, and delimiters.
UniqueLevels ==
  {<< >>, <<"">>, <<"default">>, <<"a|surface:clay">>, <<":">>}

UniqueRequests ==
  [player1Name : UniqueNames, player2Name : UniqueNames,
   surface : UniqueSurfaces, tournamentLevel : UniqueLevels]

\* The key of each call, tabulated.
UniqueKey ==
  [r \in UniqueRequests |->
     generateKey("prediction",
       PredictionParams(r.player1Name, r.player2Name, r.surface,
                        r.tournamentLevel))]

InitUnique ==
  /\ memoryCache = << >>
  /\ now = 0
  /\ db = << >>
  /\ tasks = << >>
  /\ \E r1, r2 \in UniqueRequests :
       ret = [op |-> "args", args |-> <<r1, r2>>, key |-> "",
              value |-> NULL, removed |-> << >>, threw |-> FALSE]

\* ret.key is the key of the first call, ret.value that of the second.
GeneratePredictionKeys ==
  /\ ret.op = "args"
  /\ ret' = [ret EXCEPT !.op = "predictionKey",
                        !.key = UniqueKey[ret.args[1]],
                        !.value = UniqueKey[ret.args[2]]]
  /\ UNCHANGED <<memoryCache, now, db, tasks>>

NextUnique == GeneratePredictionKeys

SpecUnique == InitUnique /\ [][NextUnique]_vars

(***************************************************************************)
(* Time to live, in seconds as in the source: every call site that stores  *)
(* a resource, with the ttl it passes, and every typed setter called       *)
(* without a ttl, which falls back on the default of its ttl parameter.    *)
(***************************************************************************)
\* private readonly defaultTTL = 300, the default of set's ttl parameter.
defaultTTL == 300

\* Defaults of the ttl parameter of the typed setters.
setPlayerStatsTTL == 600

setHeadToHeadTTL == 1800

setPredictionTTL == 3600

setRankingsTTL == 3600

setMatchesTTL == 1800

\* The ttl arguments of the call sites.
listPlayersTTL == 900

getPlayerTTL == 600

predictMatchTTL == 3600

getPlayerStatsOptimizedTTL == 600

getHeadToHeadOptimizedTTL == 1800

fetchLiveRankingsTTL == 3600

fetchLiveMatchesTTL == 1800

fetchLiveTournamentsTTL == 7200

getPredictionsTTL == 300

\* The stores of the handlers: the method called, prefix and params of the
\* key, and the ttl argument (<< >> when the call passes none).
StoreCalls ==
  { [by |-> "listPlayers", method |-> "set", prefix |-> "all_players",
     params |-> << >>, ttl |-> <<listPlayersTTL>>],
    [by |-> "getPlayer", method |-> "set", prefix |-> "player_data",
     params |-> << <<"name", Str("a")>> >>, ttl |-> <<getPlayerTTL>>],
    [by |-> "predictMatch", method |-> "setPrediction", prefix |-> "prediction",
     params |-> PredictionParams("A", "B", "clay", << >>),
     ttl |-> <<predictMatchTTL>>],
    [by |-> "getPlayerStatsOptimized", method |-> "setPlayerStats",
     prefix |-> "player_stats", params |-> << <<"playerId", Num(2)>> >>,
     ttl |-> <<getPlayerStatsOptimizedTTL>>],
    [by |-> "getHeadToHeadOptimized", method |-> "setHeadToHead",
     prefix |-> "head_to_head", params |-> HeadToHeadParams(10, 2),
     ttl |-> <<getHeadToHeadOptimizedTTL>>],
    [by |-> "fetchLiveRankingsWithCache", method |-> "setRankings",
     prefix |-> "rankings", params |-> << <<"tour", Str("atp")>> >>,
     ttl |-> <<fetchLiveRankingsTTL>>],
    [by |-> "fetchLiveMatchesWithCache", method |-> "setMatches",
     prefix |-> "matches",
     params |-> << <<"tour", Str("atp")>>, <<"days", Num(7)>> >>,
     ttl |-> <<fetchLiveMatchesTTL>>],
    [by |-> "fetchLiveTournamentsWithCache", method |-> "set",
     prefix |-> "tournaments", params |-> << <<"tour", Str("atp")>> >>,
     ttl |-> <<fetchLiveTournamentsTTL>>],
    [by |-> "getPredictions", method |-> "set", prefix |-> "predictions_list",
     params |-> << <<"limit", Num(50)>>, <<"player", Str("all")>> >>,
     ttl |-> <<getPredictionsTTL>>],
    [by |-> "", method |-> "setPrediction", prefix |-> "prediction",
     params |-> PredictionParams("B", "A", "clay", << >>), ttl |-> << >>],
    [by |-> "", method |-> "setPlayerStats", prefix |-> "player_stats",
     params |-> << <<"playerId", Num(10)>> >>, ttl |-> << >>],
    [by |-> "", method |-> "setHeadToHead", prefix |-> "head_to_head",
     params |-> HeadToHeadParams(4, 2), ttl |-> << >>],
    [by |-> "", method |-> "setRankings", prefix |-> "rankings",
     params |-> << <<"tour", Str("wta")>> >>, ttl |-> << >>],
    [by |-> "", method |-> "setMatches", prefix |-> "matches",
     params |-> << <<"tour", Str("wta")>>, <<"days", Num(7)>> >>,
     ttl |-> << >>],
    [by |-> "", method |-> "set", prefix |-> "p",
     params |-> << <<"id", Num(1)>> >>, ttl |-> << >>] }

\* Every method falling back on the default of set.
ParameterDefaultOfSet(method) == defaultTTL

\* The default of the method's ttl parameter.
ParameterDefault(method) ==
  CASE method = "setPlayerStats" -> setPlayerStatsTTL
    [] method = "setHeadToHead" -> setHeadToHeadTTL
    [] method = "setPrediction" -> setPredictionTTL
    [] method = "setRankings" -> setRankingsTTL
    [] method = "setMatches" -> setMatchesTTL
    [] method = "set" -> defaultTTL

\* The key of each store, tabulated.
StoreKey == [c \in StoreCalls |-> generateKey(c.prefix, c.params)]

\* A handler, or a caller that passes no ttl, stores its resource.
Store(c) ==
  SetAs(c.method, <<c.by, c.prefix>>, StoreKey[c], "v1",
        IF c.ttl = << >> THEN ParameterDefault(c.method) ELSE c.ttl[1])

NextTTL == \E c \in StoreCalls : Store(c)

SpecTTL == Init /\ [][NextTTL]_vars

(***************************************************************************)
(* The prediction accessors called with names in several spellings.        *)
(***************************************************************************)
\* Spellings of the first player's name and of the second player's name.
FirstNames == {"Ab", "aB"}

SecondNames == {"C", "c"}

NextCase ==
  \/ Tick
  \/ \E a \in FirstNames, b \in SecondNames, s \in Surfaces,
        l \in TournamentLevels : GetPrediction(a, b, s, l)
  \/ \E a \in FirstNames, b \in SecondNames, s \in Surfaces,
        l \in TournamentLevels, d \in Data, ttl \in TTLs :
        SetPrediction(a, b, s, d, l, ttl)

SpecCase == Init /\ [][NextCase]_vars

(***************************************************************************)
(* get and set alone on four keys:  the store fills, entries age, and set  *)
(* evicts.                                                                 *)
(***************************************************************************)
EvictRequests ==
  { [prefix |-> "player_stats", params |-> << <<"playerId", Num(4)>> >>],
    [prefix |-> "player_stats", params |-> << <<"playerId", Num(42)>> >>],
    [prefix |-> "rankings", params |-> << <<"tour", Str("atp")>> >>],
    [prefix |-> "rankings", params |-> << <<"tour", Str("wta")>> >>] }

NextEvict ==
  \/ Tick
  \/ \E r \in EvictRequests : Get(r.prefix, r.params)
  \/ \E r \in EvictRequests, ttl \in TTLs : Set(r.prefix, r.params, "v1", ttl)

SpecEvict == Init /\ [][NextEvict]_vars

(***************************************************************************)
(* The cached read handlers listPlayers, getPlayer, getPredictions and     *)
(* getLiveData (rankings).  A payload is the JSON text of the value: "[]"  *)
(* is an empty array, "[1]" an array with rows, "{1}" a response object;   *)
(* NULL is the text of null.  tasks is the call in flight: the handler,    *)
(* its position, what cache.get returned, what it computed, and the        *)
(* response it returns.  Entries expire and are invalidated in between.    *)
(***************************************************************************)
Handlers == {"listPlayers", "getPlayer", "getPredictions", "getLiveData"}

\* The key each handler hands to cache.get and cache.set.
HandlerKey ==
  [h \in Handlers |->
     CASE h = "listPlayers" -> AllPlayersKey
       [] h = "getPlayer" -> PlayerDataKey
       [] h = "getPredictions" -> PredictionsListKey
       [] h = "getLiveData" -> RankingsKey["atp"]]

\* What the handler can compute on a miss: listPlayers and the rankings
\* fetch give an array, possibly empty; getPlayer and getPredictions build
\* a response object.
Computed(h) ==
  IF h \in {"listPlayers", "getLiveData"} THEN {"[]", "[1]"} ELSE {"{1}"}

\* The handlers whose computation can fail: getPlayer (not found) and the
\* rankings fetch.
CanFail == {"getPlayer", "getLiveData"}

\* if (cached) taking an empty array or object for no value.
TruthyNonEmpty(v) == v \notin {NULL, "0", "false", "[]", "{}"}

\* if (cached): null, 0, '' and false are falsy; arrays and objects are
\* truthy, empty ones too.
Truthy(v) == v \notin {NULL, "0", "false", "\"\""}

NoResponse == [payload |-> NULL, from_cache |-> FALSE]

HandlerIdle ==
  [handler |-> "", pc |-> "idle", cached |-> NULL, computed |-> NULL,
   response |-> NoResponse]

InitFlags ==
  /\ memoryCache = << >>
  /\ now = 0
  /\ db = << >>
  /\ tasks = HandlerIdle
  /\ ret = [op |-> "init", args |-> << >>, key |-> "", value |-> NULL,
            removed |-> << >>, threw |-> FALSE]

\* A request reaches a handler, or the response is returned and the next
\* request arrives.
HandlerCall(h) ==
  /\ tasks.pc \in {"idle", "returned"}
  /\ tasks' = [HandlerIdle EXCEPT !.handler = h, !.pc = "get"]
  /\ UNCHANGED <<memoryCache, now, db, ret>>

\* const cached = await cache.get(...); if (cached) return it with
\* from_cache: true.
HandlerGet ==
  LET key    == HandlerKey[tasks.handler]
      cached == GetResult(memoryCache, key, now)
  IN
  /\ tasks.pc = "get"
  /\ memoryCache' = GetStore(memoryCache, key, now)
  /\ tasks' = IF Truthy(cached)
              THEN [tasks EXCEPT !.pc = "returned", !.cached = cached,
                      !.response = [payload |-> cached, from_cache |-> TRUE]]
              ELSE [tasks EXCEPT !.pc = "compute", !.cached = cached]
  /\ UNCHANGED <<now, db, ret>>

\* The query or the API call returns.
HandlerCompute(payload) ==
  /\ tasks.pc = "compute"
  /\ payload \in Computed(tasks.handler)
  /\ tasks' = [tasks EXCEPT !.pc = "set", !.computed = payload]
  /\ UNCHANGED <<memoryCache, now, db, ret>>

\* The query or the API call fails, or getPlayer finds no player: the
\* handler throws, nothing is stored and there is no response.
HandlerThrow ==
  /\ tasks.pc = "compute"
  /\ tasks.handler \in CanFail
  /\ tasks' = HandlerIdle
  /\ UNCHANGED <<memoryCache, now, db, ret>>

\* await cache.set(...); return the response with from_cache: false.
HandlerStoreResponse ==
  /\ tasks.pc = "set"
  /\ memoryCache' = SetStore(memoryCache, HandlerKey[tasks.handler],
                             tasks.computed, MaxTTL, now)
  /\ tasks' = [tasks EXCEPT !.pc = "returned",
                 !.response = [payload |-> tasks.computed,
                               from_cache |-> FALSE]]
  /\ UNCHANGED <<now, db, ret>>

NextFlags ==
  \/ Tick
  \/ \E h \in Handlers : HandlerCall(h)
  \/ HandlerGet
  \/ \E payload \in {"[]", "[1]", "{1}"} : HandlerCompute(payload)
  \/ HandlerThrow
  \/ HandlerStoreResponse
  \/ \E p \in {"all_players", "rankings:tour:atp"} : InvalidatePattern(p)

SpecFlags == InitFlags /\ [][NextFlags]_vars

(***************************************************************************)
(* Properties.                                                             *)
(***************************************************************************)
\* The entries of a store, as a set.
Entries(m) == {m[i] : i \in 1..Len(m)}

\* More than the entry's TTL has passed at time t.
PastTTL(e, t) == t - e.timestamp > e.ttl * MsPerSec

\* s occurs in k: k is some prefix, then s, then some suffix.
ContainsSubstring(k, s) ==
  \E i \in 0..(Len(k) - Len(s)) :
     k = SubSeq(k, 1, i) \o s \o SubSeq(k, i + Len(s) + 1, Len(k))

\* C1: in every reachable state the store holds at most maxMemoryCacheSize
\* entries, whatever calls and TTLs came before.
C1_CapacityBound == Len(memoryCache) <= maxMemoryCacheSize

\* A set found the store full, evicted, and left it exactly full.
C1_Witness ==
  /\ ret.op = "set"
  /\ ret.removed # << >>
  /\ Len(memoryCache) = maxMemoryCacheSize

\* C2 as stated, on entries with a positive TTL: a get that returns a value
\* found an entry with now - timestamp strictly less than its TTL.
C2_HitOnlyBeforeTTL ==
  (ret.op = "get" /\ ret.value # NULL) =>
     \E e \in Entries(memoryCache) :
        /\ e.key = ret.key
        /\ e.data = ret.value
        /\ e.ttl > 0 => now - e.timestamp < e.ttl * MsPerSec

\* C2 amended: get returns the data of the entry under its key when
\* now - timestamp <= ttl * 1000, and a miss when there is no entry or
\* now - timestamp > ttl * 1000.
C2_HitUntilTTLInclusive ==
  [][ret'.op = "get" =>
       LET live == {e \in Entries(memoryCache) :
                      e.key = ret'.key /\ now - e.timestamp <= e.ttl * MsPerSec}
       IN  IF live = {} THEN ret'.value = NULL
           ELSE \E e \in live : ret'.value = e.data]_vars

\* A get hit an entry exactly when its positive TTL had run out.
C2_Witness ==
  /\ ret.op = "get"
  /\ ret.value # NULL
  /\ \E e \in Entries(memoryCache) :
        e.key = ret.key /\ e.ttl > 0 /\ now - e.timestamp = e.ttl * MsPerSec

\* C3: a get of key k that directly follows set(k, v, ttl), with no clock
\* advance in between, returns v.
C3_SetThenGet ==
  [][(ret.op = "set" /\ ret'.op = "get" /\ ret'.key = ret.key)
       => ret'.value = ret.value]_vars

\* A get returned the value of an entry written at this instant into a
\* store that is full.
C3_Witness ==
  /\ ret.op = "get"
  /\ ret.value # NULL
  /\ Len(memoryCache) = maxMemoryCacheSize
  /\ \E e \in Entries(memoryCache) : e.key = ret.key /\ e.timestamp = now

\* C4: a get on a key whose entry is past its TTL returns a miss, removes
\* that entry and leaves every other entry as it was.
C4_ExpiredGetRemovesEntry ==
  [][(/\ ret'.op = "get"
      /\ \E e \in Entries(memoryCache) : e.key = ret'.key /\ PastTTL(e, now))
       => /\ ret'.value = NULL
          /\ Entries(memoryCache') =
               {e \in Entries(memoryCache) : e.key # ret'.key}
          /\ Len(memoryCache') = Len(memoryCache) - 1]_vars

\* A get missed on an expired entry and removed it while another entry
\* stayed.
C4_Witness ==
  /\ ret.op = "get"
  /\ ret.value = NULL
  /\ ret.removed # << >>
  /\ memoryCache # << >>

\* C5: when a set evicts and no entry is past its TTL, every surviving entry
\* is at least as recent as every evicted one.
C5_EvictsOldest ==
  (/\ ret.op = "set"
   /\ ret.removed # << >>
   /\ \A r \in Entries(ret.removed) : ~PastTTL(r, now))
    => \A e \in Entries(memoryCache), r \in Entries(ret.removed) :
          e.timestamp >= r.timestamp

\* A set evicted an unexpired entry strictly older than a survivor.
C5_Witness ==
  /\ ret.op = "set"
  /\ \E r \in Entries(ret.removed) :
        /\ ~PastTTL(r, now)
        /\ \E e \in Entries(memoryCache) : e.timestamp > r.timestamp

\* C6: a set removes entries only when the insertion left the store over
\* capacity; it then leaves no entry past its TTL, and it evicts an
\* unexpired entry only when the unexpired entries alone exceed capacity.
C6_TwoPhaseEviction ==
  ret.op = "set" =>
    LET sizeAfterInsert == Len(memoryCache) + Len(ret.removed)
        unexpiredRemoved == {r \in Entries(ret.removed) : ~PastTTL(r, now)}
    IN  /\ sizeAfterInsert <= maxMemoryCacheSize => ret.removed = << >>
        /\ ret.removed # << >> =>
              \A e \in Entries(memoryCache) : ~PastTTL(e, now)
        /\ unexpiredRemoved # {} =>
              Len(memoryCache) + Cardinality(unexpiredRemoved)
                 > maxMemoryCacheSize

\* A set removed only expired entries and spared an unexpired entry that
\* is older than one of them.
C6_Witness ==
  /\ ret.op = "set"
  /\ ret.removed # << >>
  /\ \A r \in Entries(ret.removed) : PastTTL(r, now)
  /\ \E r \in Entries(ret.removed), e \in Entries(memoryCache) :
        e.timestamp < r.timestamp

\* C7: two parameter mappings with the same name/value pairs give the same
\* key under the same prefix, whatever their insertion orders.
C7_KeyIgnoresInsertionOrder ==
  (ret.op = "generateKey" /\ SameMapping(ret.args[2], ret.args[3]))
    => ret.key = ret.value

\* Keys were generated for one mapping of three names in two different
\* insertion orders.
C7_Witness ==
  /\ ret.op = "generateKey"
  /\ Len(ret.args[2]) = 3
  /\ ret.args[2] # ret.args[3]
  /\ SameMapping(ret.args[2], ret.args[3])
  /\ ret.key = ret.value

\* C8: getHeadToHead(b, a) directly after setHeadToHead(a, b, v) reads the
\* key that call wrote and returns v.
C8_HeadToHeadSymmetric ==
  [][(/\ ret.op = "setHeadToHead"
      /\ ret'.op = "getHeadToHead"
      /\ ret'.args = <<ret.args[2], ret.args[1]>>)
       => ret'.key = ret.key /\ ret'.value = ret.value]_vars

\* getHeadToHead(a, b) with a < b hit right after setHeadToHead(b, a, v).
C8_Witness ==
  /\ ret.op = "getHeadToHead"
  /\ ret.args[1] < ret.args[2]
  /\ ret.value # NULL
  /\ ret.key = HeadToHeadKey[ret.args[2], ret.args[1]]
  /\ \E e \in Entries(memoryCache) : e.key = ret.key /\ e.timestamp = now

\* What getPrediction(a, b, s, l) returns from store m at time t.
PredictionResult(m, a, b, s, l, t) == GetResult(m, PredictionKey[a, b, s, l], t)

\* C9: for names a, b that differ after lower-casing, setPrediction(a, b, ...)
\* writes a key other than the one getPrediction(b, a, ...) reads, and does
\* not turn what getPrediction(b, a, ...) returns into a hit.
C9_PredictionOrderSensitive ==
  [][(ret'.op = "setPrediction"
      /\ toLowerCase(ret'.args[1]) # toLowerCase(ret'.args[2]))
       => LET a == ret'.args[1]
              b == ret'.args[2]
              s == ret'.args[3]
              l == ret'.args[4]
          IN  /\ ret'.key # PredictionKey[b, a, s, l]
              /\ PredictionResult(memoryCache', b, a, s, l, now')
                   \in {NULL, PredictionResult(memoryCache, b, a, s, l, now)}]_vars

\* setPrediction(a, b) stored its entry while getPrediction(b, a) misses.
C9_Witness ==
  /\ ret.op = "setPrediction"
  /\ toLowerCase(ret.args[1]) # toLowerCase(ret.args[2])
  /\ HasKey(memoryCache, ret.key)
  /\ PredictionResult(memoryCache, ret.args[2], ret.args[1], ret.args[3],
                      ret.args[4], now) = NULL

\* C10: invalidatePattern(s) removes the entries whose key contains s and
\* keeps every other entry with its value, timestamp and ttl.
C10_InvalidateExactlyMatching ==
  [][ret'.op = "invalidatePattern" =>
       Entries(memoryCache') =
         {e \in Entries(memoryCache) : ~ContainsSubstring(e.key, ret'.args[1])}]_vars

\* Invalidating player 42's statistics removed them and kept player 4's.
C10_Witness ==
  /\ ret.op = "invalidatePattern"
  /\ ret.args = <<"player_stats:playerId:42">>
  /\ ret.removed # << >>
  /\ \E e \in Entries(memoryCache) : e.key = "player_stats:playerId:4"

\* The key is one that setPrediction writes for a prediction request.
IsPredictionKey(k) ==
  \E a, b \in MatchPlayers, s \in Surfaces, l \in RequestLevels :
     k = PredictionKey[a, b, s, l]

\* C11: every prediction entry in the store before a call of
\* invalidatePlayerData or invalidateMatchData is still in the store after
\* it; of the helpers only invalidateAllPredictions removes such entries.
C11_PredictionSurvivesOtherHelpers ==
  [][ret'.op \in {"invalidatePlayerData", "invalidateMatchData"}
       => \A e \in Entries(memoryCache) :
             IsPredictionKey(e.key) => e \in Entries(memoryCache')]_vars

\* C13: when invalidatePlayerData(p) has returned, the store holds neither
\* the player_stats entry of p nor a head_to_head entry of a pair with p,
\* p being the smaller or the larger id of the pair.
C13_PlayerDataRemoved ==
  ret.op = "invalidatePlayerData"
    => LET p == ret.args[1] IN
       /\ ~HasKey(memoryCache, PlayerStatsKey[p])
       /\ \A q \in PlayerIds : ~HasKey(memoryCache, HeadToHeadKey[p, q])

\* C12: once autoSyncData has completed, the prediction that getPrediction
\* returns to a new request was computed from the player statistics as the
\* completed run left them, whatever requests were in flight during the run.
C12_NoStalePredictionAfterSync ==
  (tasks.sync.pc = "done" /\ tasks.req.pc = "idle")
    => GetResult(memoryCache, RequestPredictionKey, now)
         \in {NULL, ToString(db.stats)}

\* The patterns the job has purged since it called the helper it is in.
Purged == {tasks.sync.purged[i] : i \in 1..Len(tasks.sync.purged)}

\* A key of the snapshot is gone, unless another task has set it since.
GoneUnlessRewritten(k) == ~HasKey(memoryCache, k) \/ k \in tasks.sync.written

\* C15: when the invalidation that follows the insert of a new match has
\* returned, all patterns of invalidatePlayerData have been purged for both
\* players of the match; and when invalidateMatchData has returned at the
\* end of a tour, every key containing "matches:" or "head_to_head:" that
\* was in the store at the call is gone.
C15_MatchIngestInvalidates ==
  tasks.sync.pc = "returned"
    => /\ (tasks.sync.helper = "invalidatePlayerData"
             /\ Len(tasks.sync.args) = 2)
            => \A i \in 1..2, n \in 1..3 :
                  PlayerDataPatterns(tasks.sync.args[i])[n] \in Purged
       /\ tasks.sync.helper = "invalidateMatchData"
            => \A k \in tasks.sync.snap :
                  (ContainsSubstring(k, "matches:")
                     \/ ContainsSubstring(k, "head_to_head:"))
                    => GoneUnlessRewritten(k)

C15_Witness ==
  /\ tasks.sync.pc = "returned"
  /\ tasks.sync.helper = "invalidateMatchData"
  /\ MatchesKey \in tasks.sync.snap
  /\ HeadToHeadKey[2, 10] \in tasks.sync.snap
  /\ tasks.sync.written = {}
  /\ memoryCache = << >>

\* C16: invalidateStaleCache is called only when the ranking sync, the match
\* sync and the statistics recomputation have returned, and when it has
\* returned every key containing "prediction:", "all_players" or
\* "predictions_list" that was in the store at the call is gone.
C16_StalePurgeAfterRecomputation ==
  (tasks.sync.helper = "invalidateStaleCache")
    => /\ {"rankings", "matches", "stats"} \subseteq tasks.sync.finished
       /\ tasks.sync.pc = "returned"
            => \A k \in tasks.sync.snap :
                  (ContainsSubstring(k, "prediction:")
                     \/ ContainsSubstring(k, "all_players")
                     \/ ContainsSubstring(k, "predictions_list"))
                    => GoneUnlessRewritten(k)

C16_Witness ==
  /\ tasks.sync.pc = "returned"
  /\ tasks.sync.helper = "invalidateStaleCache"
  /\ tasks.sync.snap = {RequestPredictionKey, AllPlayersKey}
  /\ db.stats > 0
  /\ memoryCache = << >>

\* C14: right after a write to the players table by an upload or by
\* syncData, neither the all_players entry nor the player_data entry of the
\* player is served: a listPlayers or getPlayer call made then misses.
C14_PlayerWriteInvalidates ==
  [][db'.players # db.players
       => /\ GetResult(memoryCache', AllPlayersKey, now') = NULL
          /\ GetResult(memoryCache', PlayerDataKey, now') = NULL]_vars

\* C17: a get that follows a set of the same key returns the value of that
\* set, the last one to run, also when two tasks missed the key together
\* and both stored their value; every entry is the data and TTL of one
\* task's set; and a task that has computed its value can store it
\* whenever the event loop is free.
C17_LastWriteWins ==
  [][/\ (ret.op = "set" /\ ret'.op = "get" /\ ret'.key = ret.key)
          => ret'.value = ret.value
     /\ \A e \in Entries(memoryCache') :
          \E task \in TaskIds :
             e.data = TaskData(task) /\ e.ttl = TaskTTL(task)
     /\ \A task \in TaskIds :
          (tasks.running = 0 /\ tasks.t[task].pc = "computing")
            => ENABLED TaskSetInsert(task)]_vars

C17_Witness ==
  /\ tasks.overlap
  /\ \A task \in TaskIds : tasks.t[task].pc = "idle"
  /\ ret.op = "get"
  /\ ret.value = "v2"
  /\ Len(memoryCache) = 1
  /\ memoryCache[1].key = ret.key

\* The store a call leaves and the value it returns when it runs alone on
\* store m at time t.
SequentialStore(op, m, key, pattern, task, t) ==
  IF op = "get" THEN GetStore(m, key, t)
  ELSE IF op = "set" THEN SetStore(m, key, TaskData(task), TaskTTL(task), t)
  ELSE IF op = "delete" THEN MapDelete(m, key)
  ELSE InvalidateStore(m, pattern)

SequentialValue(op, m, key, task, t) ==
  IF op = "get" THEN GetResult(m, key, t)
  ELSE IF op = "set" THEN TaskData(task)
  ELSE NULL

\* C18: while a task is between two Map operations of a call no other task
\* moves, no other call returns and the clock does not move; and when a
\* call returns, the store and the returned value are those of the call
\* run alone on the store it started from.
C18_CallsAtomic ==
  [][\A u \in TaskIds :
       LET rec == tasks.t[u]
           m0  == IF rec.pc \in MidCall THEN rec.start ELSE memoryCache
       IN
       /\ rec.pc \in MidCall
            => /\ \A task \in TaskIds \ {u} : tasks'.t[task] = tasks.t[task]
               /\ ret' # ret => ret'.args = <<u>>
               /\ now' = now
       /\ (ret' # ret /\ ret'.args = <<u>>)
            => /\ memoryCache' =
                    SequentialStore(ret'.op, m0, ret'.key, rec.pattern, u, now)
               /\ ret'.value = SequentialValue(ret'.op, m0, ret'.key, u, now)]_vars

C18_Witness ==
  /\ tasks.t[1].pc = "cleaning"
  /\ tasks.t[2].pc = "computing"
  /\ tasks.running = 1
  /\ Len(memoryCache) > maxMemoryCacheSize

\* C19: get, set, delete and invalidatePattern called with a mapping of
\* scalar values (or with a pattern) return without an error (a step that
\* ends with an error is not one of these calls), and a get of a key that
\* is not in the store returns null.
C19_OperationsTotal ==
  [][/\ ret'.threw =>
          \A prefix \in CallerPrefixes, params \in CallerParams :
             Scalar(params) => ~( \/ Get(prefix, params)
                                  \/ Set(prefix, params, "v1", MaxTTL)
                                  \/ Delete(prefix, params) )
     /\ ret'.op = "invalidatePattern" => ~ret'.threw
     /\ (ret'.op = "get" /\ ~ret'.threw /\ ~HasKey(memoryCache, ret'.key))
          => ret'.value = NULL]_vars

C19_Witness ==
  /\ ret.op = "get"
  /\ ret.key = "p:indoor:true"
  /\ ret.value = NULL
  /\ ~ret.threw
  /\ Len(memoryCache) = maxMemoryCacheSize

\* C20: get, set or delete called with a mapping that holds an array or an
\* object ends with an error; it neither builds a key nor reads or writes
\* the store.
C20_NonScalarFailsLoudly ==
  [][\A prefix \in CallerPrefixes, params \in CallerParams :
       ( /\ ~Scalar(params)
         /\ \/ Get(prefix, params)
            \/ Set(prefix, params, "v1", MaxTTL)
            \/ Delete(prefix, params) ) => ret'.threw]_vars

\* C22: delete removes the entry of its key whether it is expired or not,
\* changes nothing when the key has no entry, and leaves every other entry
\* (and the order of the entries) as it was.
C22_DeleteUnconditional ==
  [][(ret'.op = "delete" /\ ~ret'.threw)
       => /\ ~HasKey(memoryCache', ret'.key)
          /\ ~HasKey(memoryCache, ret'.key) => memoryCache' = memoryCache
          /\ \A e \in Entries(memoryCache) :
                e.key # ret'.key => e \in Entries(memoryCache')
          /\ Entries(memoryCache') \subseteq Entries(memoryCache)
          /\ Len(memoryCache') =
               Cardinality({e \in Entries(memoryCache) : e.key # ret'.key})]_vars

\* A delete removed an entry that was not expired and another entry stayed.
C22_Witness ==
  /\ ret.op = "delete"
  /\ Len(ret.removed) = 1
  /\ ~PastTTL(ret.removed[1], now)
  /\ ret.removed[1].timestamp < now
  /\ memoryCache # << >>

\* C23: set on a key that has an entry replaces the entry: the store does
\* not grow, and the entry of the key holds the value and the ttl of this
\* call and the time of this call.
C23_SetOverwrites ==
  [][(ret'.op = "set" /\ ~ret'.threw /\ HasKey(memoryCache, ret'.key))
       => /\ Len(memoryCache') = Len(memoryCache)
          /\ {e \in Entries(memoryCache') : e.key = ret'.key} =
               {[key |-> ret'.key, data |-> ret'.value,
                 timestamp |-> now', ttl |-> ret'.args[1]]}]_vars

\* The first entry of the store was written by the last set, later than the
\* entry inserted after it: the set replaced an older entry of its key.
C23_Witness ==
  /\ ret.op = "set"
  /\ Len(memoryCache) = 2
  /\ memoryCache[1].key = ret.key
  /\ memoryCache[1].timestamp = now
  /\ memoryCache[2].timestamp < now
  /\ memoryCache[1].ttl = MaxTTL

\* C21: whatever reading the secret does, construction does not fail and
\* leaves no external client; the calls that follow work on the in-process
\* map: a set stores its entry there and the get that follows returns it.
C21_StartupNeverFails ==
  [][/\ tasks'.pc # "failed"
     /\ tasks'.redisClient = NULL
     /\ ret'.op \in {"get", "set", "delete", "invalidatePattern"}
          => tasks.pc = "ready" /\ ~ret'.threw
     /\ ret'.op = "set" => HasKey(memoryCache', ret'.key)
     /\ (ret.op = "set" /\ ret'.op = "get" /\ ret'.key = ret.key)
          => ret'.value = ret.value]_vars

\* Reading the secret threw, the cache was constructed all the same and a
\* get returned a value stored in the map.
C21_Witness ==
  /\ db.secret = "throws"
  /\ tasks.pc = "ready"
  /\ tasks.log = "warn"
  /\ ret.op = "get"
  /\ ret.value # NULL

\* C24: a request that ends in an error has created or changed no
\* prediction entry (every prediction entry in the store was there when the
\* request started); a request with an input that fails validation ends in
\* an error; and a request that stored its prediction had a valid input,
\* both players found and statistics for both.
C24_PredictionOnlyAfterSuccess ==
  /\ tasks.outcome = "error"
       => PredictionEntries(memoryCache) \subseteq tasks.snap
  /\ (tasks.outcome # "none" /\ validatePredictionInput(tasks.input))
       => tasks.outcome = "error"
  /\ tasks.outcome = "ok"
       => /\ ~validatePredictionInput(tasks.input)
          /\ {tasks.input.player1_name, tasks.input.player2_name}
               \subseteq db.players
          /\ {PlayerIdOf(tasks.input.player1_name),
               PlayerIdOf(tasks.input.player2_name)} \subseteq db.stats

\* A request ended in an error because the second player has no
\* statistics, after the first player's statistics and the head-to-head
\* record were cached, and the prediction of an earlier request is still
\* in the store.
C24_Witness ==
  /\ tasks.outcome = "error"
  /\ tasks.pc = "idle"
  /\ tasks.chains # << >>
  /\ tasks.chains.s2 = "failed"
  /\ tasks.chains.h = "done"
  /\ tasks.snap # {}
  /\ PredictionEntries(memoryCache) = tasks.snap

\* C30: when the pair has no head_to_head row and the store holds the
\* unexpired entry that setHeadToHead wrote for the pair, the lookup of
\* getHeadToHeadOptimized is answered by the cache and does not go on to
\* the query.
C30_NullHeadToHeadServedFromCache ==
  [][(/\ tasks.pc = "players"
      /\ tasks'.pc = "lookups"
      /\ db.h2h = NULL
      /\ \E e \in Entries(memoryCache) :
            /\ e.key = HeadToHeadKey[PlayerIdOf(tasks.input.player1_name),
                                     PlayerIdOf(tasks.input.player2_name)]
            /\ ~PastTTL(e, now))
       => tasks'.chains.h = "done"]_vars

\* The request fields the key is meant to tell apart, the level as given.
RequestTuple(r) ==
  <<toLowerCase(r.player1Name), toLowerCase(r.player2Name), r.surface,
    r.tournamentLevel>>

\* The same with a level that is left out or empty counted as 'default'.
EffectiveTuple(r) ==
  <<toLowerCase(r.player1Name), toLowerCase(r.player2Name), r.surface,
    IF r.tournamentLevel \in {<< >>, <<"">>} THEN <<"default">>
    ELSE r.tournamentLevel>>

\* C25 as claimed: two calls that give a level and differ in lower-cased
\* player1 name, lower-cased player2 name, surface or level have different
\* keys.
C25_KeyUnique ==
  (/\ ret.op = "predictionKey"
   /\ ret.args[1].tournamentLevel # << >>
   /\ ret.args[2].tournamentLevel # << >>
   /\ RequestTuple(ret.args[1]) # RequestTuple(ret.args[2]))
    => ret.key # ret.value

\* C25 amended: two calls that differ in lower-cased player1 name,
\* lower-cased player2 name, surface or level have different keys, where a
\* level that is left out or empty counts as the level 'default'.
C25_KeyUniqueUpToDefault ==
  (ret.op = "predictionKey"
     /\ EffectiveTuple(ret.args[1]) # EffectiveTuple(ret.args[2]))
    => ret.key # ret.value

\* Keys were generated for two calls that differ in player2 name and
\* surface, where the name of the first spells the surface of the second:
\* both keys read player2Name:a|surface:clay| and differ after it.
C25_Witness ==
  /\ ret.op = "predictionKey"
  /\ ret.args[1].player1Name = ret.args[2].player1Name
  /\ ret.args[1].tournamentLevel = ret.args[2].tournamentLevel
  /\ ret.args[1].player2Name = "a|surface:clay"
  /\ ret.args[1].surface = "grass"
  /\ ret.args[2].player2Name = "a"
  /\ ret.args[2].surface = "clay"
  /\ ret.args[2].tournamentLevel = <<"a|surface:clay">>
  /\ ret.key # ret.value
  /\ ContainsSubstring(ret.key, "player2Name:a|surface:clay|")
  /\ ContainsSubstring(ret.value, "player2Name:a|surface:clay|")

\* The key belongs to the resource family of the prefix.
HasPrefix(key, prefix) ==
  Len(key) > Len(prefix) /\ SubSeq(key, 1, Len(prefix) + 1) = prefix \o ":"

\* The ttl, in seconds, that the policy gives each resource family.
PolicyTTL ==
  << <<"all_players", 900>>, <<"player_data", 600>>, <<"prediction", 3600>>,
     <<"player_stats", 600>>, <<"head_to_head", 1800>>, <<"rankings", 3600>>,
     <<"matches", 1800>>, <<"tournaments", 7200>>,
     <<"predictions_list", 300>> >>

\* C26: every entry of a resource family is held with the ttl the policy
\* gives the family, whether a handler stored it or a typed setter was
\* called without a ttl; an entry stored by set without a ttl has 300 s.
C26_TTLPolicy ==
  /\ \A e \in Entries(memoryCache) :
        \A i \in 1..Len(PolicyTTL) :
           HasPrefix(e.key, PolicyTTL[i][1]) => e.ttl = PolicyTTL[i][2]
  /\ \A e \in Entries(memoryCache) : HasPrefix(e.key, "p") => e.ttl = 300
  /\ \A e \in Entries(memoryCache) :
        \/ HasPrefix(e.key, "p")
        \/ \E i \in 1..Len(PolicyTTL) : HasPrefix(e.key, PolicyTTL[i][1])

\* The store holds the tournaments list of fetchLiveTournamentsWithCache
\* and rankings stored by setRankings without a ttl.
C26_Witness ==
  /\ \E e \in Entries(memoryCache) :
        HasPrefix(e.key, "tournaments") /\ e.ttl = 7200
  /\ \E e \in Entries(memoryCache) :
        e.key = "rankings:tour:wta" /\ e.ttl = 3600
  /\ ret.args = <<"", "rankings">>

\* The characters of a name with every upper-case letter replaced by its
\* lower-case letter.
CaseFolded(s) == [i \in 1..Len(s) |-> LowerChar(CharAt(s, i))]

\* C27: getPrediction(a, b, s, l) returns the value of the unexpired entry
\* that setPrediction(a2, b2, s, l) stored, whenever a and a2, and b and
\* b2, differ in letter case only.
C27_PredictionIgnoresCase ==
  [][ret'.op = "getPrediction" =>
       \A a2 \in FirstNames, b2 \in SecondNames :
          (/\ CaseFolded(a2) = CaseFolded(ret'.args[1])
           /\ CaseFolded(b2) = CaseFolded(ret'.args[2]))
            => \A e \in Entries(memoryCache) :
                  (/\ e.key = PredictionKey[a2, b2, ret'.args[3], ret'.args[4]]
                   /\ ~PastTTL(e, now))
                    => ret'.value = e.data]_vars

\* getPrediction(aB, c) returned the value of an entry stored at an
\* earlier time under the key of setPrediction(Ab, C).
C27_Witness ==
  /\ ret.op = "getPrediction"
  /\ ret.args[1] = "aB"
  /\ ret.args[2] = "c"
  /\ ret.value = "v2"
  /\ now > 0
  /\ \E e \in Entries(memoryCache) :
        /\ e.key = PredictionKey["Ab", "C", ret.args[3], ret.args[4]]
        /\ e.timestamp < now

\* C28: invalidateAllPredictions removes every prediction entry and keeps
\* every entry of another family; invalidateMatchData keeps every entry
\* that is neither a matches nor a head_to_head entry.
C28_FamiliesApart ==
  [][/\ ret'.op = "invalidateAllPredictions"
          => Entries(memoryCache') =
               {e \in Entries(memoryCache) : ~HasPrefix(e.key, "prediction")}
     /\ ret'.op = "invalidateMatchData"
          => \A e \in Entries(memoryCache) :
                (~HasPrefix(e.key, "matches") /\ ~HasPrefix(e.key, "head_to_head"))
                  => e \in Entries(memoryCache')]_vars

\* C29: invalidatePlayerData(p) keeps the player_stats entry of every
\* other player.
C29_OtherPlayersStatsKept ==
  [][ret'.op = "invalidatePlayerData"
       => \A q \in (PlayerIds \cup MorePlayerIds) \ {ret'.args[1]} :
             \A e \in Entries(memoryCache) :
                e.key = PlayerStatsKey[q] => e \in Entries(memoryCache')]_vars

\* The statistics of the request's player that a getPlayerStats call made
\* now would return are absent or the ones the database holds.
CachedStatsCurrent ==
  GetResult(memoryCache, PlayerStatsKey[RequestPlayerId], now)
    \in {NULL, ToString(db.stats)}

\* updatePlayerStatistics has written the statistics of the request's
\* player, and the invalidatePlayerData call behind the write has returned.
StatsWrittenAndInvalidated ==
  /\ tasks.sync.pc = "returned"
  /\ PhaseName(tasks.sync) = "stats"
  /\ tasks.sync.helper = "invalidatePlayerData"
  /\ tasks.sync.args = <<RequestPlayerId>>

\* C31: once invalidatePlayerData(p) has returned behind the write of
\* updatePlayerStatistics, whatever step comes next (the cache.setPlayerStats
\* of a getPlayerStatsOptimized(p) in flight included), a getPlayerStats(p)
\* made after it returns nothing or the statistics as written, never
\* statistics read before the write.
C31_NoStaleStatsAfterUpdate ==
  [][StatsWrittenAndInvalidated => CachedStatsCurrent']_vars

\* C32: a run of autoSyncData that has started eventually has executed
\* invalidateStaleCache and returned, whichever fetches failed and whichever
\* statistics updates were skipped or failed on the way.
C32_SyncReachesStalePurge ==
  (tasks.sync.pc # "idle")
    ~> (tasks.sync.pc = "done" /\ "stale" \in tasks.sync.finished)

\* The run has returned behind invalidateStaleCache without having written
\* statistics: its fetches failed or named no known player, and the
\* recomputation was skipped.
C32_Witness ==
  /\ tasks.sync.pc = "done"
  /\ tasks.sync.finished = {"rankings", "matches", "stats", "stale"}
  /\ db.stats = 0
  /\ HasKey(memoryCache, RankingsKey["atp"])

\* No entry of store m is past its TTL at time t.
NoneExpired(m, t) == \A e \in Entries(m) : ~PastTTL(e, t)

\* C33: a set with a positive TTL on a new key, into a store that is full
\* and holds no entry past its TTL, evicts one other entry and leaves the
\* new key in the store with the value given.
C33_NewKeySurvivesEviction ==
  [][(/\ ret'.op = "set"
      /\ ret'.args[1] > 0
      /\ ~HasKey(memoryCache, ret'.key)
      /\ Len(memoryCache) = maxMemoryCacheSize
      /\ NoneExpired(memoryCache, now))
       => /\ HasKey(memoryCache', ret'.key)
          /\ MapGet(memoryCache', ret'.key).data = ret'.value
          /\ Len(ret'.removed) = 1
          /\ ret'.removed[1].key # ret'.key]_vars

\* A set evicted an unexpired entry written at the same instant as the new
\* key, and the new key is in the store.
C33_Witness ==
  /\ ret.op = "set"
  /\ ret.args[1] > 0
  /\ Len(ret.removed) = 1
  /\ ret.removed[1].key # ret.key
  /\ ret.removed[1].timestamp = now
  /\ ~PastTTL(ret.removed[1], now)
  /\ Len(memoryCache) = maxMemoryCacheSize
  /\ HasKey(memoryCache, ret.key)

\* C34: a get that hits leaves every entry of the store as it was, the
\* one read included; and a set that directly follows a hit and evicts
\* unexpired entries evicts the ones with the oldest timestamps, whichever
\* entry was read.
C34_HitLeavesStore ==
  [][/\ (ret'.op = "get" /\ ret'.value # NULL) => memoryCache' = memoryCache
     /\ (/\ ret.op = "get"
         /\ ret.value # NULL
         /\ ret'.op = "set"
         /\ ret'.removed # << >>
         /\ NoneExpired(ret'.removed, now))
          => \A r \in Entries(ret'.removed), e \in Entries(memoryCache') :
                r.timestamp <= e.timestamp]_vars

\* A get hit the strictly oldest entry of a full store, some time after
\* the entry was written.
C34_Witness ==
  /\ ret.op = "get"
  /\ ret.value # NULL
  /\ Len(memoryCache) = maxMemoryCacheSize
  /\ MapGet(memoryCache, ret.key).timestamp < now
  /\ \A e \in Entries(memoryCache) :
        e.key # ret.key => e.timestamp > MapGet(memoryCache, ret.key).timestamp

\* C37: when the insertion of a set leaves the store over capacity and no
\* entry is past its TTL, the set removes exactly size - maximum entries and
\* leaves exactly the maximum.
C37_EvictsExactlyExcess ==
  [][LET size == Len(memoryCache)
                   + (IF HasKey(memoryCache, ret'.key) THEN 0 ELSE 1)
     IN  (/\ ret'.op = "set"
          /\ size > maxMemoryCacheSize
          /\ \A e \in Entries(memoryCache) :
                e.key # ret'.key => ~PastTTL(e, now))
           => /\ Len(ret'.removed) = size - maxMemoryCacheSize
              /\ Len(memoryCache') = maxMemoryCacheSize
              /\ NoneExpired(ret'.removed, now)]_vars

\* A set evicted one unexpired entry while another unexpired entry of the
\* same age stayed.
C37_Witness ==
  /\ ret.op = "set"
  /\ Len(ret.removed) = 1
  /\ ~PastTTL(ret.removed[1], now)
  /\ Len(memoryCache) = maxMemoryCacheSize
  /\ \E e \in Entries(memoryCache) :
        e.key # ret.key /\ e.timestamp = ret.removed[1].timestamp

\* The rankings entry of a tour in store m, or none.
RankingsEntry(m, tour) == {e \in Entries(m) : e.key = RankingsKey[tour]}

\* The job has moved in this step (a handler's step leaves these alone).
JobMoved ==
  \/ tasks'.sync.pc # tasks.sync.pc
  \/ tasks'.sync.purged # tasks.sync.purged
  \/ tasks'.sync.tour # tasks.sync.tour
  \/ tasks'.sync.phase # tasks.sync.phase

\* C35: the invalidation that ends a tour of syncRankingsAutomatically
\* removes the rankings entry of that tour and leaves the other tour's
\* entry as it was; every other step of the ranking sync, a failed fetch
\* included, leaves the rankings entries of both tours as they were.
C35_RankingsEntryOfTourRemoved ==
  [][(PhaseName(tasks.sync) = "rankings" /\ JobMoved)
       => LET s    == tasks.sync
              tour == Tours[s.tour]
          IN  IF s.pc = "purging" /\ s.helper = "invalidatePattern"
              THEN /\ RankingsEntry(memoryCache', tour) = {}
                   /\ \A o \in DOMAIN RankingsKey \ {tour} :
                         RankingsEntry(memoryCache', o)
                           = RankingsEntry(memoryCache, o)
              ELSE \A o \in DOMAIN RankingsKey :
                      RankingsEntry(memoryCache', o)
                        = RankingsEntry(memoryCache, o)]_vars

\* The invalidation behind the atp rankings has returned: the atp entry is
\* gone and the wta entry is in the store.
C35_Witness ==
  /\ tasks.sync.pc = "returned"
  /\ PhaseName(tasks.sync) = "rankings"
  /\ tasks.sync.helper = "invalidatePattern"
  /\ tasks.sync.purged = << "rankings:tour:atp" >>
  /\ RankingsEntry(memoryCache, "atp") = {}
  /\ RankingsEntry(memoryCache, "wta") # {}

\* C36: a handler returns from_cache true with the cached payload exactly
\* when its cache.get found a live entry; otherwise it returns nothing at
\* the get, and the response it returns later carries from_cache false and
\* the payload it computed, which the store then holds under its key.
C36_FromCacheFlag ==
  [][LET key == HandlerKey[tasks.handler]
         hit == GetResult(memoryCache, key, now)
     IN  /\ tasks.pc = "get" /\ tasks'.pc # "get"
              => IF hit # NULL
                 THEN /\ tasks'.pc = "returned"
                      /\ tasks'.response = [payload |-> hit,
                                            from_cache |-> TRUE]
                 ELSE tasks'.pc # "returned"
         /\ tasks.pc # "get" /\ tasks.pc # "returned" /\ tasks'.pc = "returned"
              => /\ tasks'.response = [payload |-> tasks.computed,
                                       from_cache |-> FALSE]
                 /\ tasks.cached = NULL
                 /\ GetResult(memoryCache', key, now) = tasks.computed]_vars

\* listPlayers returned a cached empty list with from_cache true.
C36_Witness ==
  /\ tasks.pc = "returned"
  /\ tasks.handler = "listPlayers"
  /\ tasks.response = [payload |-> "[]", from_cache |-> TRUE]

====
